---- MODULE Spec2Model ----
(***************************************************************************)
(* Verification model of the Salesforce / SFTP batch synchronisation code: *)
(*   src/salesforceintegrationcode.py                                      *)
(*   src/sftpintegrationcode.py                                            *)
(*                                                                         *)
(* The module holds several state machines over one set of variables; each *)
(* specification starts one of them and leaves the others at rest:         *)
(*   SpecWhere  SalesforceAPIWrapper._sf_build_where_clauses               *)
(*   Spec       NewSalesforceIntegration.send_external_df_to_external with *)
(*              run_upsert_to_sf, _run_upsert_chunk and the reconciliation,*)
(*              for a task that stores no ids                              *)
(*   SpecSend   the same under every setting for storing the new ids       *)
(*   SpecSftp   NewSFTPIntegration.run_task_from_external_crm_to_quorum    *)
(*   SpecQuery  SalesforceAPIWrapper.query_sf with async_queries           *)
(*   SpecTask   NewSalesforceIntegration.run_task_from_quorum_to_external_crm*)
(*              with normalize_sf_field_types and the send                 *)
(*   SpecUpload NewSFTPIntegration.run_task_from_quorum_to_external_crm    *)
(*              with upload_to_remote                                      *)
(*   SpecRuns   the three runs that write outwards, dry and live           *)
(*   SpecResubmit  SalesforceAPIWrapper._send_records_one_at_a_time, called*)
(*              twice with the same records                                *)
(***************************************************************************)
EXTENDS Integers, Sequences, FiniteSets, TLC

VARIABLES
    \* ---- _sf_build_where_clauses --------------------------------------
    wpc,                \* "rest" | "loop" | "done": position in the function
    search_values,      \* the list of candidate records (key -> value)
    field_mapping,      \* the mapping internal key -> Salesforce field name
    idx,                \* enumerate() index of the next record (0-based)
    current_where,      \* the text accumulated for the chunk being built
    sf_where_clauses,   \* the list of finished where clauses (texts)
    cur_preds,          \* history: the predicates joined into current_where
    clause_preds        \* history: the predicates of each finished clause

whereVars == <<wpc, search_values, field_mapping, idx, current_where,
               sf_where_clauses, cur_preds, clause_preds>>

VARIABLES
    \* ---- send_external_df_to_external / run_upsert_to_sf ---------------
    upc,                \* position in the outbound send (see SendStart)
    salesforce_model,   \* task.external_model
    sf_max_batch_size,  \* task.sf_max_batch_size (0 when not set)
    match_on,           \* task.sf_match_on ("" when not set)
    store_sf_ids,       \* task.sf_store_ids_in_quorum
    has_custom_slug,    \* external_id_custom_slugs_dict has the task's model
    external_id_dictionary, \* the task model's part of the process-wide map
    send_df,            \* history: the frame as it was passed in
    external_list,      \* send_df.to_dict(orient="records")
    num_chunks,         \* the chunk total announced in the log
    current_chunk,      \* number of the next chunk to process (1-based)
    quorum_id_list,     \* the internal ids popped from the chunk in flight
    total_results,      \* the outcomes collected so far
    overall_success,    \* run_upsert_to_sf's first result
    in_flight,          \* chunk numbers handed to Salesforce, not yet back
    sent,               \* history: every submission, as Salesforce got it
    responses,          \* history: len(upsert_result_list) of each returned chunk
    chunk_results,      \* history: what _run_upsert_chunk returned, per chunk
    fault,              \* history: the chunk whose submission raised, and how
    notifications,      \* notify_prof_svcs calls
    ledger_ids,         \* ids written by send_ext_ids_to_quorum
    send_result,        \* what send_external_df_to_external returned
    raised,             \* the exception the send ended with ("" for none)
    requeried           \* history: the rows update_external_id_dict got back

sendVars == <<upc, salesforce_model, sf_max_batch_size, match_on, store_sf_ids,
              has_custom_slug, external_id_dictionary, send_df,
              external_list, num_chunks, current_chunk, quorum_id_list, total_results,
              overall_success, in_flight, sent, responses, chunk_results,
              fault, notifications, ledger_ids, send_result, raised, requeried>>

(***************************************************************************)
(* Bounds of the model.                                                    *)
(***************************************************************************)
MaxSearch == 2          \* longest list of candidate records
MaxRecords == 3         \* most records in one outbound send (Spec)
MaxStored == 2          \* most records in one outbound send (SpecSend)
MaxBatch == 2           \* largest task.sf_max_batch_size tried
MaxCols == 2            \* most columns of a task's dataframe (SpecTask)
MaxRows == 1            \* most rows of a task's dataframe (SpecTask)
MaxClauses == 3         \* most where clauses of one query (SpecQuery)

(***************************************************************************)
(* Program constants.                                                      *)
(***************************************************************************)
MAX_WHERE_CLAUSE == 3500
SfApiMaxBatchSize == 10000      \* SalesforceAPIWrapper.SF_API_MAX_BATCH_SIZE

(***************************************************************************)
(* Text.  A text is a TLA+ string; a name (dictionary key, field name) is  *)
(* a tuple of one-character strings so that Python's code point ordering   *)
(* of str can be computed.                                                 *)
(***************************************************************************)
Ord(c) ==
    CASE c = "D" -> 68 [] c = "I" -> 73 [] c = "L" -> 76 [] c = "M" -> 77
      [] c = "N" -> 78 [] c = "Z" -> 90 [] c = "_" -> 95 [] c = "a" -> 97
      [] c = "b" -> 98 [] c = "d" -> 100 [] c = "e" -> 101 [] c = "f" -> 102
      [] c = "i" -> 105 [] c = "m" -> 109 [] c = "o" -> 111 [] c = "p" -> 112
      [] c = "s" -> 115 [] c = "t" -> 116

RECURSIVE StrLess(_, _)
\* Python's a < b on two str values (code point by code point, a proper
\* prefix first).
StrLess(a, b) ==
    IF b = <<>> THEN FALSE
    ELSE IF a = <<>> THEN TRUE
    ELSE IF Ord(Head(a)) # Ord(Head(b)) THEN Ord(Head(a)) < Ord(Head(b))
    ELSE StrLess(Tail(a), Tail(b))

\* Python's (k1, v1) < (k2, v2) on tuples of str.
ItemLess(p, q) ==
    \/ StrLess(p[1], q[1])
    \/ p[1] = q[1] /\ StrLess(p[2], q[2])

RECURSIVE Join(_, _)
\* sep.join(parts)
Join(sep, parts) ==
    IF parts = <<>> THEN ""
    ELSE IF Len(parts) = 1 THEN parts[1]
    ELSE parts[1] \o sep \o Join(sep, Tail(parts))

\* The text of a name.
Str(name) == Join("", name)

RECURSIVE Rep(_, _)
\* s * n
Rep(s, n) ==
    IF n = 0 THEN ""
    ELSE IF n % 2 = 0 THEN LET h == Rep(s, n \div 2) IN h \o h
    ELSE s \o Rep(s, n - 1)

Digit(d) == <<"0", "1", "2", "3", "4", "5", "6", "7", "8", "9">>[d + 1]

RECURSIVE NatStr(_)
NatStr(n) == IF n < 10 THEN Digit(n) ELSE NatStr(n \div 10) \o Digit(n % 10)

\* "{}".format(n) for an int
IntStr(n) == IF n < 0 THEN "-" \o NatStr(0 - n) ELSE NatStr(n)

\* %m, %d, %H, %M, %S: two digits, zero padded
Pad2(n) == Digit(n \div 10) \o Digit(n % 10)

\* %Y for a four digit year
Pad4(n) == Pad2(n \div 100) \o Pad2(n % 100)

(***************************************************************************)
(* Python values.  Every value is a record of one shape:                   *)
(*   kind  "none" | "bool" | "int" | "str" | "date" | "datetime"           *)
(*   b     the bool                                                        *)
(*   n     the int; for date/datetime the calendar day as yyyymmdd         *)
(*   t     for datetime the time of day as hhmmss                          *)
(*   s     for str the text as a tuple of pieces, where a quote character  *)
(*         is a piece of its own; for datetime <<utc offset>> when aware   *)
(***************************************************************************)
None == [kind |-> "none", b |-> FALSE, n |-> 0, t |-> 0, s |-> <<>>]
PyBool(b) == [kind |-> "bool", b |-> b, n |-> 0, t |-> 0, s |-> <<>>]
PyInt(n) == [kind |-> "int", b |-> FALSE, n |-> n, t |-> 0, s |-> <<>>]
PyStr(pieces) == [kind |-> "str", b |-> FALSE, n |-> 0, t |-> 0, s |-> pieces]
PyDate(ymd) == [kind |-> "date", b |-> FALSE, n |-> ymd, t |-> 0, s |-> <<>>]
PyDatetime(ymd, hms, tz) ==
    [kind |-> "datetime", b |-> FALSE, n |-> ymd, t |-> hms, s |-> tz]

RECURSIVE MapPieces(_, _)
MapPieces(pieces, old) ==
    IF pieces = <<>> THEN <<>>
    ELSE <<IF Head(pieces) = old THEN "\\'" ELSE Head(pieces)>>
             \o MapPieces(Tail(pieces), old)

\* unicode(value).replace("'", "\\'")
EscapeQuotes(v) == Join("", MapPieces(v.s, "'"))

\* value.strftime(SF_DATETIME_FORMAT), SF_DATETIME_FORMAT = "%Y-%m-%dT%H:%M:%S%z";
\* a date has no time of day (00:00:00) and, like a naive datetime, an empty %z
StrftimeSfDatetime(v) ==
    Pad4(v.n \div 10000) \o "-" \o Pad2((v.n \div 100) % 100) \o "-" \o Pad2(v.n % 100)
      \o "T" \o Pad2(v.t \div 10000) \o ":" \o Pad2((v.t \div 100) % 100) \o ":"
      \o Pad2(v.t % 100) \o Join("", v.s)

(***************************************************************************)
(* SalesforceAPIWrapper._sf_build_where_clauses                            *)
(***************************************************************************)
RECURSIVE SortedBy(_)
\* sorted(): the items of the set S in ascending order of ItemLess
SortedBy(S) ==
    IF S = {} THEN <<>>
    ELSE LET m == CHOOSE p \in S : \A q \in S \ {p} : ItemLess(p, q)
         IN  <<m>> \o SortedBy(S \ {m})

\* A variant that orders the items by the Salesforce field name first.
SortedItemsBySfName(fm) ==
    LET swapped == {<<fm[k], k>> : k \in DOMAIN fm}
        sorted == SortedBy(swapped)
    IN  [i \in 1..Len(sorted) |-> <<sorted[i][2], sorted[i][1]>>]

\* sorted(listitems(field_mapping)): the (value_key, sf_name) pairs in
\* ascending order of the pair
SortedItems(fm) == SortedBy({<<k, fm[k]>> : k \in DOMAIN fm})

\* record.get(value_key)
Get(record, key) == IF key \in DOMAIN record THEN record[key] ELSE None

\* One comparison of a predicate, by the type of the value searched for.
WhereItem(sf_name, value) ==
    CASE value.kind = "bool" ->
            Str(sf_name) \o " = " \o (IF value.b THEN "TRUE" ELSE "FALSE")
      [] value.kind \in {"date", "datetime"} ->
            IF Str(sf_name) = "LastModifiedDate"
            THEN Str(sf_name) \o " >= " \o StrftimeSfDatetime(value)
            ELSE Str(sf_name) \o " = '" \o StrftimeSfDatetime(value) \o "'"
      [] value.kind = "int" ->
            Str(sf_name) \o " = " \o IntStr(value.n)
      [] OTHER ->
            Str(sf_name) \o " = '" \o EscapeQuotes(value) \o "'"

RECURSIVE WhereItemsOf(_, _)
\* A variant that writes a comparison for every mapped field, null or not.
WhereItemsWithNulls(record, items) ==
    [i \in 1..Len(items) |->
        [key |-> items[i][1], name |-> items[i][2],
         text |-> WhereItem(items[i][2], Get(record, items[i][1]))]]

\* where_items, built over the sorted mapping `items`; each entry keeps the
\* key and field name next to the text
WhereItemsOf(record, items) ==
    IF items = <<>> THEN <<>>
    ELSE LET value_key == Head(items)[1]
             sf_name == Head(items)[2]
             value_to_search_for == Get(record, value_key)
         IN  (IF value_to_search_for # None
              THEN <<[key |-> value_key, name |-> sf_name,
                      text |-> WhereItem(sf_name, value_to_search_for)]>>
              ELSE <<>>)
             \o WhereItemsOf(record, Tail(items))

WhereItems(record, fm) == WhereItemsOf(record, SortedItems(fm))

\* u"({})".format(" AND ".join(where_items))
CurrentClause(where_items) ==
    "(" \o Join(" AND ", [i \in 1..Len(where_items) |-> where_items[i].text]) \o ")"

\* One pass of the loop body for record search_values[idx].
BuildWhereStep ==
    /\ wpc = "loop"
    /\ idx < Len(search_values)
    /\ LET record == search_values[idx + 1]
           \* lines 910-913: the check at the top of the loop
           overTop == Len(current_where) > MAX_WHERE_CLAUSE
           where0 == IF overTop THEN "" ELSE current_where
           preds0 == IF overTop THEN <<>> ELSE cur_preds
           clauses0 == IF overTop THEN Append(sf_where_clauses, current_where)
                                  ELSE sf_where_clauses
           cpreds0 == IF overTop THEN Append(clause_preds, cur_preds)
                                 ELSE clause_preds
           where_items == WhereItems(record, field_mapping)
       IN  IF where_items = <<>>
           THEN \* line 941: continue
                /\ current_where' = where0
                /\ cur_preds' = preds0
                /\ sf_where_clauses' = clauses0
                /\ clause_preds' = cpreds0
           ELSE LET current_clause == CurrentClause(where_items)
                    where1 == IF where0 # ""
                              THEN Join(" OR ", <<where0, current_clause>>)
                              ELSE current_clause
                    preds1 == Append(preds0, [rec |-> idx, items |-> where_items,
                                              text |-> current_clause])
                    close == \/ Len(where1) > MAX_WHERE_CLAUSE
                             \/ idx = Len(search_values) - 1
                IN  /\ current_where' = IF close THEN "" ELSE where1
                    /\ cur_preds' = IF close THEN <<>> ELSE preds1
                    /\ sf_where_clauses' = IF close THEN Append(clauses0, where1)
                                                    ELSE clauses0
                    /\ clause_preds' = IF close THEN Append(cpreds0, preds1)
                                                ELSE cpreds0
    /\ idx' = idx + 1
    /\ UNCHANGED <<wpc, search_values, field_mapping>>

\* line 956: return sf_where_clauses
BuildWhereReturn ==
    /\ wpc = "loop"
    /\ idx = Len(search_values)
    /\ wpc' = "done"
    /\ UNCHANGED <<search_values, field_mapping, idx, current_where,
                   sf_where_clauses, cur_preds, clause_preds>>

KeyA == <<"a">>
KeyB == <<"b">>
FieldName == <<"N", "a", "m", "e">>
FieldZip == <<"Z", "i", "p">>
FieldId == <<"I", "d">>
FieldLastModifiedDate ==
    <<"L","a","s","t","M","o","d","i","f","i","e","d","D","a","t","e">>

\* The field mappings tried: internal key -> Salesforce field name.
FieldMappings ==
    { (KeyA :> FieldName),
      (KeyA :> FieldZip) @@ (KeyB :> FieldName),
      (KeyA :> FieldId) @@ (KeyB :> FieldLastModifiedDate) }

\* The values tried under each key: null, short and long strings, a string
\* with a quote, a bool, an int and a datetime.
ValuesA == { None, PyStr(<<"x">>), PyStr(<<"o", "'", "k">>),
             PyStr(<<Rep("a", 1800)>>), PyStr(<<Rep("b", 3600)>>) }
ValuesB == { None, PyBool(TRUE), PyInt(7),
             PyDatetime(20230105, 203000, <<"+0000">>) }

CandidateRecords == { (KeyA :> va) @@ (KeyB :> vb) : va \in ValuesA, vb \in ValuesB }

SeqsUpTo(S, n) == UNION { [1..k -> S] : k \in 0..n }

WhereRest ==
    /\ wpc = "rest" /\ search_values = <<>> /\ field_mapping = <<>> /\ idx = 0
    /\ current_where = "" /\ sf_where_clauses = <<>>
    /\ cur_preds = <<>> /\ clause_preds = <<>>

(***************************************************************************)
(* Records, Salesforce responses and upsert outcomes.                      *)
(***************************************************************************)
\* Python truthiness of a value (bool(value)).
Truthy(v) ==
    CASE v.kind = "none" -> FALSE
      [] v.kind = "bool" -> v.b
      [] v.kind = "int" -> v.n # 0
      [] v.kind = "str" -> Join("", v.s) # ""
      [] OTHER -> TRUE

\* record.pop(key, None) / record.pop(key): the value, and the record left
PopValue(record, key) == IF key \in DOMAIN record THEN record[key] ELSE None
PopRest(record, key) == [k \in DOMAIN record \ {key} |-> record[k]]

\* One item of a bulk upsert response.  isdict is FALSE for an item that is
\* not a dictionary (reading it raises).
Item(isdict, success, id, created, errors) ==
    [isdict |-> isdict, success |-> success, id |-> id, created |-> created,
     errors |-> errors]

\* The Salesforce id given to the record at position i of the whole send.
SfId(i) == PyStr(<<"sf" \o IntStr(i)>>)

\* The items Salesforce may answer with for the record at position i: a
\* success with an id, a failure with an error, a success without an id,
\* and an item that is no dictionary.
ItemsFor(i) ==
    { Item(TRUE, PyBool(TRUE), SfId(i), PyBool(TRUE), <<>>),
      Item(TRUE, PyBool(FALSE), None, PyBool(FALSE), <<"INVALID_FIELD_FOR_INSERT_UPDATE">>),
      Item(TRUE, PyBool(TRUE), None, PyBool(FALSE), <<>>),
      Item(FALSE, None, None, None, <<>>) }

\* An upsert outcome: {"success": .., "quorum_id": .., "sf_id": ..}
Outcome(success, quorum_id, sf_id) ==
    [success |-> success, quorum_id |-> quorum_id, sf_id |-> sf_id]

\* _should_ignore_error: "ignore", "report", or "raise" when reading
\* response["errors"][0] fails on an empty error list
ShouldIgnoreError(model, response) ==
    IF model = "CampaignMember"
    THEN IF response.errors = <<>> THEN "raise"
         ELSE IF response.errors[1] = "INVALID_FIELD_FOR_INSERT_UPDATE"
              THEN "ignore" ELSE "report"
    ELSE "report"

\* A variant that trusts the success flag of the response alone and passes
\* whatever id the response holds.
OneResultBySuccessFlag(model, quorum_id, obj_upsert_result) ==
    IF ~ obj_upsert_result.isdict
    THEN Outcome(FALSE, quorum_id, None)
    ELSE IF Truthy(obj_upsert_result.success)
    THEN Outcome(TRUE, quorum_id, obj_upsert_result.id)
    ELSE Outcome(FALSE, quorum_id, None)

\* The body of the loop over zip(quorum_id_list, upsert_result_list): the
\* outcome recorded for one pair.
OneResult(model, quorum_id, obj_upsert_result) ==
    IF ~ obj_upsert_result.isdict
    THEN \* .get() raises; the except branch records a failure
         Outcome(FALSE, quorum_id, None)
    ELSE IF Truthy(obj_upsert_result.success) /\ Truthy(obj_upsert_result.id)
    THEN Outcome(TRUE, quorum_id, obj_upsert_result.id)
    ELSE \* the else branch, and the except branch when
         \* _should_ignore_error raises, record the same failure
         Outcome(FALSE, quorum_id, None)

Min(a, b) == IF a < b THEN a ELSE b

\* zip(quorum_id_list, upsert_result_list): pairs up to the shorter list
Zip(ids, results) ==
    [i \in 1..Min(Len(ids), Len(results)) |-> <<ids[i], results[i]>>]

\* output_results of _run_upsert_chunk (lines 1097-1143)
OutputResults(model, ids, upsert_result_list) ==
    LET pairs == Zip(ids, upsert_result_list)
    IN  [i \in 1..Len(pairs) |-> OneResult(model, pairs[i][1], pairs[i][2])]

(***************************************************************************)
(* SalesforceAPIWrapper._send_records_one_at_a_time                        *)
(***************************************************************************)
\* What Salesforce answers to the one call made for a record: the status
\* code of update() (0: the call raises) and the result of create().
Replies ==
    [update : {204, 400, 0}, create : {"ok"}]
        \cup [update : {204}, create : {"fail", "nondict", "raise"}]

\* The local variable `outcome` before its first assignment.
Unbound == Item(FALSE, None, None, None, <<"unbound">>)

\* The result appended by the except branch (lines 1213-1219).
ExceptResult == Item(TRUE, PyBool(FALSE), PyStr(<<"None">>), PyBool(FALSE), <<"exception">>)

\* One pass of the loop over external_list: [result, outcome], the entry
\* appended to upsert_result_list and the value `outcome` is left with.
\* pos is the record's position in the whole send.
OneAtATimeStep(record, matchOn, reply, outcomeIn, pos) ==
    IF "Id" \notin DOMAIN record
    THEN [result |-> ExceptResult, outcome |-> outcomeIn]         \* KeyError
    ELSE
    LET sf_id == record["Id"]
        rest == PopRest(record, "Id")
    IN  IF matchOn # "Id" /\ matchOn \notin DOMAIN rest
        THEN [result |-> ExceptResult, outcome |-> outcomeIn]     \* KeyError
        ELSE
        LET match_value == IF matchOn # "Id" THEN rest[matchOn] ELSE sf_id
        IN  IF matchOn # "Id" /\ ~ Truthy(match_value)
            THEN [result |-> Item(TRUE, PyBool(FALSE), sf_id, PyBool(FALSE),
                                  <<"No match_on value provided">>),
                  outcome |-> outcomeIn]
            ELSE IF Truthy(match_value)
            THEN \* update an existing record
                 IF reply.update = 0
                 THEN [result |-> ExceptResult, outcome |-> outcomeIn]
                 ELSE LET created == PyBool(TRUE)
                          out == IF reply.update = 204
                                 THEN Item(TRUE, PyBool(TRUE), sf_id, PyBool(FALSE), <<>>)
                                 ELSE outcomeIn
                      IN  IF out = Unbound
                          THEN [result |-> ExceptResult, outcome |-> out]  \* NameError
                          ELSE IF out.isdict
                          THEN [result |-> Item(TRUE, out.success, out.id, created, <<>>),
                                outcome |-> out]
                          ELSE [result |-> Item(TRUE, PyBool(FALSE), None, created,
                                                <<"nondictionary result">>),
                                outcome |-> out]
            ELSE \* create a new record
                 IF reply.create = "raise"
                 THEN [result |-> ExceptResult, outcome |-> outcomeIn]
                 ELSE LET created == PyBool(FALSE)
                          out == CASE reply.create = "ok" ->
                                        Item(TRUE, PyBool(TRUE), SfId(pos), None, <<>>)
                                   [] reply.create = "fail" ->
                                        Item(TRUE, PyBool(FALSE), None, None, <<>>)
                                   [] OTHER ->
                                        Item(FALSE, None, None, None, <<"nondict">>)
                      IN  IF out.isdict
                          THEN [result |-> Item(TRUE, out.success, out.id, created, <<>>),
                                outcome |-> out]
                          ELSE [result |-> Item(TRUE, PyBool(FALSE), None, created,
                                                <<"nondictionary result">>),
                                outcome |-> out]

RECURSIVE OneAtATimeFrom(_, _, _, _, _, _)
OneAtATimeFrom(records, matchOn, replies, outcomeIn, first, i) ==
    IF i > Len(records) THEN <<>>
    ELSE LET step == OneAtATimeStep(records[i], matchOn, replies[i], outcomeIn,
                                    first + i - 1)
         IN  <<step.result>> \o OneAtATimeFrom(records, matchOn, replies,
                                               step.outcome, first, i + 1)

\* upsert_result_list of _send_records_one_at_a_time; `first` is the position
\* of the chunk's first record in the whole send
SendRecordsOneAtATime(records, matchOn, replies, first) ==
    OneAtATimeFrom(records, matchOn, replies, Unbound, first, 1)

(***************************************************************************)
(* SalesforceAPIWrapper.run_upsert_to_sf and _run_upsert_chunk             *)
(***************************************************************************)
\* line 294: task.sf_max_batch_size or self.sf_api.SF_API_MAX_BATCH_SIZE
MaxBatchSizeOf(task_size) == IF task_size = 0 THEN SfApiMaxBatchSize ELSE task_size

\* lines 975-976: if not match_on: match_on = "Id"
MatchOnOf(m) == IF m = "" THEN "Id" ELSE m

\* chunked_list(lst, n, length): the bounds <<lo, hi>> of the successive
\* slices of at most n elements
ChunkedList(n, length) ==
    [k \in 1..((length + n - 1) \div n) |-> <<(k - 1) * n + 1, Min(k * n, length)>>]

Chunks == ChunkedList(MaxBatchSizeOf(sf_max_batch_size), Len(external_list))

\* line 984: num_chunks = int(len(external_list) / max_batch_size) + 1
NumChunks(length, n) == (length \div n) + 1

\* The send enters run_upsert_to_sf (lines 293-304 and 975-985).
SendStart ==
    /\ upc = "send"
    /\ num_chunks' = NumChunks(Len(external_list), MaxBatchSizeOf(sf_max_batch_size))
    /\ current_chunk' = 1
    /\ total_results' = <<>>
    /\ overall_success' = FALSE
    /\ upc' = "next_chunk"
    /\ UNCHANGED <<send_df, salesforce_model, sf_max_batch_size, match_on, store_sf_ids,
                   has_custom_slug, external_id_dictionary, external_list,
                   quorum_id_list, in_flight, sent, responses, chunk_results,
                   fault, notifications, ledger_ids, send_result, raised, requeried>>

\* A variant of the loop that takes the next chunk without waiting.
CanSubmitEagerly == upc \in {"next_chunk", "awaiting"}

\* The for loop takes the next chunk only when the call for the previous
\* one has returned (lines 986-997).
CanSubmit == upc = "next_chunk"

\* A variant that sends the record as it came, bookkeeping key included.
RecordWithKey(record) == record

\* line 1048: the record after record.pop("quorum_side_primary_key", None)
RecordSent(record) == PopRest(record, "quorum_side_primary_key")

\* _run_upsert_chunk, lines 1045-1063: pop the internal ids and hand the
\* chunk to Salesforce.
SubmitChunk ==
    /\ CanSubmit
    /\ current_chunk <= Len(Chunks)
    /\ LET k == current_chunk
           lo == Chunks[k][1]
           hi == Chunks[k][2]
           stripped == [i \in 1..Len(external_list) |->
                           IF lo <= i /\ i <= hi
                           THEN RecordSent(external_list[i])
                           ELSE external_list[i]]
       IN  /\ quorum_id_list' = [i \in 1..(hi - lo + 1) |->
                                   PopValue(external_list[lo + i - 1],
                                            "quorum_side_primary_key")]
           /\ external_list' = stripped
           /\ sent' = Append(sent, [chunk |-> k, records |-> SubSeq(stripped, lo, hi)])
           /\ in_flight' = in_flight \cup {k}
           /\ current_chunk' = k + 1
    /\ upc' = "awaiting"
    /\ UNCHANGED <<send_df, salesforce_model, sf_max_batch_size, match_on, store_sf_ids,
                   has_custom_slug, external_id_dictionary, num_chunks,
                   total_results, overall_success, responses, chunk_results,
                   fault, notifications, ledger_ids, send_result, raised, requeried>>

RECURSIVE ItemLists(_, _)
\* The lists of len response items for the records from position first on.
ItemLists(first, len) ==
    IF len = 0 THEN {<<>>}
    ELSE { Append(r, it) : r \in ItemLists(first, len - 1),
                           it \in ItemsFor(first + len - 1) }

\* The bulk responses Salesforce may give for n records starting at position
\* first: any items, fewer than the records sent, as many, or one more.
BulkResponses(first, n) ==
    UNION { ItemLists(first, len) : len \in 0..n }
        \cup { Append(r, Item(FALSE, None, None, None, <<>>)) : r \in ItemLists(first, n) }

\* A variant that keeps only the outcomes of the newest chunk.
ReplaceResults(results, output_results) == output_results

\* line 993: total_results.extend(...)
ExtendResults(results, output_results) == results \o output_results

\* The call for the chunk in flight returns: the response is reduced to
\* outcomes (lines 1065-1143) and appended to total_results (line 993).
ChunkReturns ==
    /\ upc = "awaiting"
    /\ LET k == current_chunk - 1
           lo == Chunks[k][1]
           hi == Chunks[k][2]
           n == hi - lo + 1
       IN  \E resp \in IF salesforce_model = "ContentNote"
                       THEN [1..n -> Replies]
                       ELSE BulkResponses(lo, n) :
             LET upsert_result_list ==
                     IF salesforce_model = "ContentNote"
                     THEN SendRecordsOneAtATime(SubSeq(external_list, lo, hi),
                                                MatchOnOf(match_on), resp, lo)
                     ELSE resp
                 output_results ==
                     OutputResults(salesforce_model, quorum_id_list, upsert_result_list)
             IN  /\ total_results' = ExtendResults(total_results, output_results)
                 /\ responses' = Append(responses, Len(upsert_result_list))
                 /\ chunk_results' = Append(chunk_results, output_results)
                 /\ in_flight' = in_flight \ {k}
    /\ upc' = "next_chunk"
    /\ UNCHANGED <<send_df, salesforce_model, sf_max_batch_size, match_on, store_sf_ids,
                   has_custom_slug, external_id_dictionary, external_list,
                   num_chunks, current_chunk, quorum_id_list, overall_success,
                   sent, fault, notifications, ledger_ids, send_result, raised, requeried>>

\* The exceptions a bulk submission may raise.
FaultKinds == {"SalesforceMalformedRequest", "ConnectionError",
               "SalesforceRefusedRequest", "Exception"}

\* line 999: except (SalesforceMalformedRequest, requests.exceptions.ConnectionError)
IsTransportFault(kind) == kind \in {"SalesforceMalformedRequest", "ConnectionError"}

\* A notify_prof_svcs call: who made it, and what it attached.
Notification(src, pairs, results) == [src |-> src, pairs |-> pairs, results |-> results]

\* A variant of the handler that goes on with the next chunk.
AfterTransportFaultContinue == "next_chunk"

\* lines 999-1013: after the handler the function returns
AfterTransportFault == "upsert_done"

\* The bulk call for the chunk in flight raises (line 1059).  A transport
\* fault is handled at lines 999-1011; anything else leaves run_upsert_to_sf
\* and send_external_df_to_external as an exception.
ChunkFaults ==
    /\ upc = "awaiting"
    /\ salesforce_model # "ContentNote"
    /\ \E kind \in FaultKinds :
         /\ fault' = [chunk |-> current_chunk - 1, kind |-> kind]
         /\ IF IsTransportFault(kind)
            THEN /\ notifications' = Append(notifications,
                                        Notification("run_upsert_to_sf", <<>>, <<>>))
                 /\ upc' = AfterTransportFault
                 /\ raised' = raised
            ELSE /\ notifications' = notifications
                 /\ upc' = "raised"
                 /\ raised' = kind
    /\ in_flight' = in_flight \ {current_chunk - 1}
    /\ UNCHANGED <<send_df, salesforce_model, sf_max_batch_size, match_on, store_sf_ids,
                   has_custom_slug, external_id_dictionary, external_list,
                   num_chunks, current_chunk, quorum_id_list, total_results,
                   overall_success, sent, responses, chunk_results, ledger_ids,
                   send_result, requeried>>

\* The loop over the chunks ends (line 998): overall_success = True.
UpsertLoopEnds ==
    /\ upc = "next_chunk"
    /\ current_chunk > Len(Chunks)
    /\ overall_success' = TRUE
    /\ upc' = "upsert_done"
    /\ UNCHANGED <<send_df, salesforce_model, sf_max_batch_size, match_on, store_sf_ids,
                   has_custom_slug, external_id_dictionary, external_list,
                   num_chunks, current_chunk, quorum_id_list, total_results,
                   in_flight, sent, responses, chunk_results, fault,
                   notifications, ledger_ids, send_result, raised, requeried>>

(***************************************************************************)
(* NewSalesforceIntegration.send_external_df_to_external, after the upsert *)
(***************************************************************************)
\* lines 313-319: the rows of results with both ids, as (quorum_id,
\* external_unique_id) pairs
IdUpdateDf(results) ==
    LET Keep(r) == r.quorum_id # None /\ r.sf_id # None
        kept == SelectSeq(results, Keep)
    IN  [i \in 1..Len(kept) |->
            [quorum_id |-> kept[i].quorum_id, external_unique_id |-> kept[i].sf_id]]

\* A variant that attaches only the first pair to the notification.
FirstPairOnly(id_update_df) == SubSeq(id_update_df, 1, 1)

\* line 334: dataframe_to_attach_as_file=id_update_df
AttachedPairs(id_update_df) == id_update_df

\* What the re-query of update_external_id_dict (lines 128-133) may return:
\* nothing, rows (Id, quorum id) for all or some of the pairs just created,
\* or a row whose quorum id field is null.
RequeryRows(id_update_df) ==
    { <<>>, id_update_df, SubSeq(id_update_df, 1, 1),
      <<[quorum_id |-> None, external_unique_id |-> PyStr(<<"sf0">>)]>> }

\* update_external_id_dict (lines 109-161) for the task's model: the new
\* value of its part of the map, given the rows Salesforce returned.
UpdateExternalIdDict(dict, rows) ==
    IF rows = <<>>
    THEN dict                   \* line 138: an empty answer changes nothing
    ELSE LET NotNull(r) == r.quorum_id # None
             kept == SelectSeq(rows, NotNull)           \* line 139
         IN  [present |-> TRUE,                         \* lines 157-161
              ids |-> { <<kept[i].quorum_id, kept[i].external_unique_id>> :
                          i \in 1..Len(kept) }]

\* lines 306-345: what send_external_df_to_external does with the result of
\* run_upsert_to_sf.
Reconcile ==
    /\ upc = "upsert_done"
    /\ IF ~ overall_success
       THEN \* lines 339-345
            /\ notifications' = Append(notifications,
                   Notification("send_external_df_to_external", <<>>, total_results))
            /\ send_result' = "False"
            /\ upc' = "returned"
            /\ UNCHANGED <<ledger_ids, external_id_dictionary, raised, requeried>>
       ELSE IF ~ store_sf_ids
       THEN /\ send_result' = "True"
            /\ upc' = "returned"
            /\ UNCHANGED <<notifications, ledger_ids, external_id_dictionary, raised, requeried>>
       ELSE IF total_results = <<>>
       THEN \* line 314: a frame built from no records has no "quorum_id" column
            /\ raised' = "KeyError"
            /\ upc' = "raised"
            /\ UNCHANGED <<notifications, ledger_ids, external_id_dictionary, send_result, requeried>>
       ELSE LET id_update_df == IdUpdateDf(total_results)
            IN  IF id_update_df = <<>>
                THEN /\ send_result' = "True"
                     /\ upc' = "returned"
                     /\ UNCHANGED <<notifications, ledger_ids,
                                    external_id_dictionary, raised, requeried>>
                ELSE IF has_custom_slug
                THEN \* line 324: send_ext_ids_to_quorum
                     /\ ledger_ids' = ledger_ids \o id_update_df
                     /\ send_result' = "True"
                     /\ upc' = "returned"
                     /\ UNCHANGED <<notifications, external_id_dictionary, raised, requeried>>
                ELSE IF external_id_dictionary.present
                THEN \* line 327: update_external_id_dict
                     /\ \E rows \in RequeryRows(id_update_df) :
                            /\ external_id_dictionary' =
                                   UpdateExternalIdDict(external_id_dictionary, rows)
                            /\ requeried' = [ran |-> TRUE, rows |-> rows]
                     /\ send_result' = "True"
                     /\ upc' = "returned"
                     /\ UNCHANGED <<notifications, ledger_ids, raised>>
                ELSE \* lines 330-336
                     /\ notifications' = Append(notifications,
                            Notification("send_external_df_to_external",
                                         AttachedPairs(id_update_df), <<>>))
                     /\ raised' = "ValueError"
                     /\ upc' = "raised"
                     /\ UNCHANGED <<ledger_ids, external_id_dictionary, send_result, requeried>>
    /\ UNCHANGED <<send_df, salesforce_model, sf_max_batch_size, match_on, store_sf_ids,
                   has_custom_slug, external_list, num_chunks, current_chunk,
                   quorum_id_list, total_results, overall_success, in_flight,
                   sent, responses, chunk_results, fault>>

(***************************************************************************)
(* Inputs of the outbound send.                                            *)
(***************************************************************************)
Models == {"Contact", "CampaignMember", "ContentNote"}

\* The record at position i of the frame sent.  For a bulk model the record
\* comes with or without an internal id; for ContentNote, which reads "Id"
\* and the match field, with or without a Salesforce id already.
RecordsAt(model, i) ==
    IF model = "ContentNote"
    THEN { ("Id" :> id) @@ ("Quorum_ID__c" :> PyInt(i))
              @@ ("quorum_side_primary_key" :> PyInt(i)) :
             id \in {None, PyStr(<<"old" \o IntStr(i)>>)} }
    ELSE { ("Id" :> None) @@ ("Quorum_ID__c" :> PyInt(i))
              @@ ("quorum_side_primary_key" :> q) :
             q \in {PyInt(i), None} }

RECURSIVE FramesOf(_, _)
\* The frames of exactly m records.
FramesOf(model, m) ==
    IF m = 0 THEN {<<>>}
    ELSE { Append(f, r) : f \in FramesOf(model, m - 1), r \in RecordsAt(model, m) }

Frames(model, max) == UNION { FramesOf(model, m) : m \in 1..max }

MatchOns(model) == IF model = "ContentNote" THEN {"", "Quorum_ID__c"} ELSE {""}

NoFault == [chunk |-> 0, kind |-> ""]

NoIdDictionary == [present |-> FALSE, ids |-> {}]

NotRequeried == [ran |-> FALSE, rows |-> <<>>]

\* The task settings that decide where new ids go: store_sf_ids,
\* has_custom_slug and the model's part of the identifier map.
IdSettings ==
    { <<FALSE, FALSE, NoIdDictionary>>,
      <<TRUE, TRUE, NoIdDictionary>>,
      <<TRUE, FALSE, [present |-> TRUE, ids |-> {}]>>,
      <<TRUE, FALSE, [present |-> TRUE, ids |-> {<<PyInt(9), PyStr(<<"stale">>)>>}]>>,
      <<TRUE, FALSE, NoIdDictionary>> }

SendRest ==
    /\ upc = "rest" /\ salesforce_model = "" /\ sf_max_batch_size = 0
    /\ match_on = "" /\ store_sf_ids = FALSE /\ has_custom_slug = FALSE
    /\ external_id_dictionary = NoIdDictionary
    /\ send_df = <<>> /\ external_list = <<>> /\ num_chunks = 0 /\ current_chunk = 0
    /\ quorum_id_list = <<>> /\ total_results = <<>> /\ overall_success = FALSE
    /\ in_flight = {} /\ sent = <<>> /\ responses = <<>> /\ chunk_results = <<>>
    /\ fault = NoFault /\ notifications = <<>> /\ ledger_ids = <<>>
    /\ send_result = "" /\ raised = ""
    /\ requeried = NotRequeried

\* The state in which send_external_df_to_external is called.
SendCalled ==
    /\ upc = "send"
    /\ num_chunks = 0 /\ current_chunk = 0
    /\ quorum_id_list = <<>> /\ total_results = <<>> /\ overall_success = FALSE
    /\ in_flight = {} /\ sent = <<>> /\ responses = <<>> /\ chunk_results = <<>>
    /\ fault = NoFault /\ notifications = <<>> /\ ledger_ids = <<>>
    /\ send_result = "" /\ raised = ""
    /\ requeried = NotRequeried

\* Sends of up to MaxRecords records in chunks of up to MaxBatch, for a
\* task that does not store Salesforce ids.
InitUpsert ==
    /\ SendCalled
    /\ salesforce_model \in Models
    /\ sf_max_batch_size \in 0..MaxBatch
    /\ match_on \in MatchOns(salesforce_model)
    /\ store_sf_ids = FALSE
    /\ has_custom_slug = FALSE
    /\ external_id_dictionary = NoIdDictionary
    /\ send_df \in Frames(salesforce_model, MaxRecords)
    /\ external_list = send_df

\* Sends of up to MaxStored records under every id setting.
InitSend ==
    /\ SendCalled
    /\ salesforce_model \in Models
    /\ sf_max_batch_size \in {0, 1}
    /\ match_on \in MatchOns(salesforce_model)
    /\ \E cfg \in IdSettings :
         /\ store_sf_ids = cfg[1]
         /\ has_custom_slug = cfg[2]
         /\ external_id_dictionary = cfg[3]
    /\ send_df \in Frames(salesforce_model, MaxStored)
    /\ external_list = send_df

(***************************************************************************)
(* SalesforceAPIWrapper.normalize_sf_field_types                           *)
(*                                                                         *)
(* A dataframe is [columns |-> the column names in order, rows |-> the     *)
(* rows, each a function column name -> value].  A list value is a Python  *)
(* value of kind "list" whose s holds its elements.                        *)
(***************************************************************************)
PyList(elements) == [kind |-> "list", b |-> FALSE, n |-> 0, t |-> 0, s |-> elements]

\* len(unicode(value))
UnicodeLen(v) ==
    CASE v.kind = "none" -> 4
      [] v.kind = "bool" -> IF v.b THEN 4 ELSE 5
      [] v.kind = "int" -> Len(IntStr(v.n))
      [] v.kind = "str" -> Len(Join("", v.s))
      [] v.kind = "date" -> 10
      [] v.kind = "datetime" -> IF v.s = <<>> THEN 19 ELSE 25
      [] OTHER -> 2 + Len(Join(", ", v.s))

\* value.strftime(SF_DATE_FORMAT), SF_DATE_FORMAT = "%Y-%m-%d"
StrftimeSfDate(v) ==
    Pad4(v.n \div 10000) \o "-" \o Pad2((v.n \div 100) % 100) \o "-" \o Pad2(v.n % 100)

\* The "Pick List" entry of a field definition: a list of values, or None.
NoPickList == [islist |-> FALSE, values |-> <<>>]
PickListOf(values) == [islist |-> TRUE, values |-> values]

\* A field of the schema, as get_sf_field_definition_dict returns it.
FieldDefinition(type, length, picklist) ==
    [present |-> TRUE, Type |-> type, Length |-> length, PickList |-> picklist]

\* field_definitions.get(field_name, None)
DefinitionOf(field_definitions, field_name) ==
    IF field_name \in DOMAIN field_definitions
    THEN field_definitions[field_name]
    ELSE [present |-> FALSE, Type |-> "", Length |-> 0, PickList |-> NoPickList]

\* One entry of error_messages: the column and what is wrong with it.
ErrorMessage(field_name, what) == [field |-> field_name, what |-> what]

\* line 1331: value if not hasattr(value, "__len__") else None if len(value) == 0 else value
EmptyToNone(v) ==
    IF v.kind = "str" /\ Join("", v.s) = "" THEN None
    ELSE IF v.kind = "list" /\ v.s = <<>> THEN None
    ELSE v

\* lines 1341, 1348, 1353: value and value is not pd.NaT and isinstance(value, (datetime, date))
IsDateValue(v) == v.kind \in {"date", "datetime"}

\* _check_picklist_values for a value that is no list: the value when it is
\* reported, None otherwise
CheckPicklistValues(value, picklist) ==
    IF value.kind = "none" THEN None
    ELSE IF ~ (value.kind = "str" /\ Join("", value.s) = "")
            /\ ~ (value.kind = "str"
                  /\ \E i \in 1..Len(picklist.values) :
                         picklist.values[i] = Join("", value.s))
         THEN value ELSE None

\* line 1372: len(unicode(x)) not in [0, 15, 18] if x else False
WrongIdLength(x) == Truthy(x) /\ UnicodeLen(x) \notin {0, 15, 18}

\* line 1381: x not in [True, False, None, "0", " "]
NotBoolean(x) ==
    ~ \/ x.kind \in {"bool", "none"}
      \/ x.kind = "int" /\ x.n \in {0, 1}
      \/ x.kind = "str" /\ Join("", x.s) \in {"0", " "}

\* line 1390: not isinstance(x, (str, unicode, int, float)) after fillna("")
NotStringable(x) == x.kind \notin {"none", "str", "int", "bool"}

\* A variant in which an id of the wrong length is never fatal.
WrongIdIsNeverFatal(field_datatype) == FALSE

\* line 1376: a wrong length is fatal on a field of type id
WrongIdIsFatal(field_datatype) == field_datatype = "id"

\* A variant in which a bad column name is reported without being fatal.
BadColumnIsNotFatal == FALSE

\* line 1325: a bad column name sets error_fatal
BadColumnIsFatal == TRUE

\* line 1320: the column that holds the Quorum id is skipped
IsBookkeepingKey(field_name) == field_name = "quorum_side_primary_key"

\* The body of the loop over dataframe.columns (lines 1317-1426) for one
\* column: the column's new values, the error messages it adds, whether it
\* sets error_fatal, and the exception it raises ("" for none).
NormalizeColumn(field_name, column, field_definition) ==
    LET Result(values, errors, fatal, exc) ==
            [values |-> values, errors |-> errors, fatal |-> fatal, raises |-> exc]
        field_datatype == field_definition.Type
        cleaned == IF field_datatype # "bool"
                   THEN [i \in 1..Len(column) |-> EmptyToNone(column[i])]
                   ELSE column
        IsList(v) == v.kind = "list"
        NotDate(v) == ~ IsDateValue(v)
        Reported(v) == CheckPicklistValues(v, field_definition.PickList) # None
        TooLong(v) == UnicodeLen(v) > field_definition.Length
    IN  IF ~ field_definition.present
        THEN IF IsBookkeepingKey(field_name)
             THEN Result(column, <<>>, FALSE, "")
             ELSE Result(column, <<ErrorMessage(field_name, "not valid")>>,
                         BadColumnIsFatal, "")
        ELSE IF (\E i \in 1..Len(cleaned) : IsList(cleaned[i]))
        THEN Result(cleaned, <<>>, FALSE, "TypeError")
        ELSE IF field_datatype \in {"date", "datetime"}
        THEN Result([i \in 1..Len(cleaned) |->
                        IF IsDateValue(cleaned[i])
                        THEN PyStr(<<IF field_datatype = "date"
                                     THEN StrftimeSfDate(cleaned[i])
                                     ELSE StrftimeSfDatetime(cleaned[i])>>)
                        ELSE None],
                    IF (\E i \in 1..Len(cleaned) : NotDate(cleaned[i]))
                    THEN <<ErrorMessage(field_name, "not date values")>> ELSE <<>>,
                    FALSE, "")
        ELSE IF field_datatype = "picklist"
        THEN IF field_definition.PickList.islist
             THEN Result(cleaned,
                         IF (\E i \in 1..Len(cleaned) : Reported(cleaned[i]))
                         THEN <<ErrorMessage(field_name, "not picklist entries")>>
                         ELSE <<>>,
                         FALSE, "")
             ELSE Result(cleaned, <<ErrorMessage(field_name, "no picklist values")>>,
                         FALSE, "")
        ELSE IF field_datatype \in {"id", "reference"}
        THEN Result([i \in 1..Len(cleaned) |->
                        IF Truthy(cleaned[i]) THEN cleaned[i] ELSE None],
                    IF (\E i \in 1..Len(cleaned) : WrongIdLength(cleaned[i]))
                    THEN <<ErrorMessage(field_name, "not of an acceptable length")>>
                    ELSE <<>>,
                    (\E i \in 1..Len(cleaned) : WrongIdLength(cleaned[i]))
                        /\ WrongIdIsFatal(field_datatype),
                    "")
        ELSE IF field_datatype = "boolean"
        THEN Result(cleaned,
                    IF (\E i \in 1..Len(cleaned) : NotBoolean(cleaned[i]))
                    THEN <<ErrorMessage(field_name, "not boolean")>> ELSE <<>>,
                    FALSE, "")
        ELSE IF field_datatype \in {"int", "float", "currency", "decimal", "double",
                                    "percent"}
        THEN Result(cleaned, <<>>, FALSE, "")
        ELSE IF field_definition.Length # 0
        THEN Result(cleaned,
                    (IF (\E i \in 1..Len(cleaned) : NotStringable(cleaned[i]))
                     THEN <<ErrorMessage(field_name, "not strings")>> ELSE <<>>)
                      \o (IF (\E i \in 1..Len(cleaned) : TooLong(cleaned[i]))
                          THEN <<ErrorMessage(field_name, "over the maximum length")>>
                          ELSE <<>>),
                    FALSE, "")
        ELSE IF field_datatype \in {"address", "base64"}
        THEN Result(cleaned, <<>>, FALSE, "")
        ELSE Result(cleaned, <<ErrorMessage(field_name, "unrecognized data type")>>,
                    FALSE, "")

\* The values of one column of a dataframe.
ColumnOf(df, field_name) == [i \in 1..Len(df.rows) |-> df.rows[i][field_name]]

\* The dataframe with one column replaced.
WithColumn(df, field_name, values) ==
    [df EXCEPT !.rows = [i \in 1..Len(df.rows) |->
                            [df.rows[i] EXCEPT ![field_name] = values[i]]]]

RECURSIVE NormalizeFrom(_, _, _, _, _)
\* The loop over dataframe.columns from position c on, with the
\* error_messages and error_fatal accumulated so far.
NormalizeFrom(df, field_definitions, c, error_messages_in, error_fatal_in) ==
    IF c > Len(df.columns)
    THEN [dataframe |-> df, errors |-> error_messages_in, fatal |-> error_fatal_in,
          raises |-> ""]
    ELSE LET field_name == df.columns[c]
             one == NormalizeColumn(field_name, ColumnOf(df, field_name),
                                    DefinitionOf(field_definitions, field_name))
         IN  IF one.raises # ""
             THEN [dataframe |-> df, errors |-> error_messages_in,
                   fatal |-> error_fatal_in, raises |-> one.raises]
             ELSE NormalizeFrom(WithColumn(df, field_name, one.values),
                                field_definitions, c + 1,
                                error_messages_in \o one.errors,
                                error_fatal_in \/ one.fatal)

\* normalize_sf_field_types: the normalized dataframe, the error messages,
\* error_fatal, and the exception raised ("" when it returns).  Lines
\* 1428-1434: with error messages the function raises only if error_fatal.
NormalizeSfFieldTypes(df, field_definitions) ==
    LET looped == NormalizeFrom(df, field_definitions, 1, <<>>, FALSE)
    IN  IF looped.raises = "" /\ looped.errors # <<>> /\ looped.fatal
        THEN [looped EXCEPT !.raises = "ValueError"]
        ELSE looped

(***************************************************************************)
(* The integration object: the flags set at construction.                  *)
(***************************************************************************)
VARIABLES
    force,              \* self.force
    dry_run             \* self.dry_run

selfVars == <<force, dry_run>>

SelfRest == force = FALSE /\ dry_run = FALSE

(***************************************************************************)
(* NewSFTPIntegration.run_task_from_external_crm_to_quorum                 *)
(***************************************************************************)
VARIABLES
    fpc,                    \* "rest" | "start" | "loop" | "returned" | "raised"
    remote_files,           \* file name -> checksum of its content on the server
    fingerprints,           \* FileManager's store: file name -> saved checksum
    filepaths_with_change,  \* the list of (local_filepath, has_changed)
    file_pos,               \* position of the for loop in that list (1-based)
    results,                \* the results list of the run
    some_change,            \* the local some_change
    local_files,            \* the local copies not yet removed
    run_result,             \* what the run returned ("" before it returns)
    processed,              \* history of this run: files converted, with the outcome
    saves                   \* history of this run: FileManager.save_file calls

sftpVars == <<fpc, remote_files, fingerprints, filepaths_with_change, file_pos,
              results, some_change, local_files, run_result, processed, saves>>

\* The files matching the task's pattern, in the order they are listed.
Files == <<"a.csv", "b.csv">>

Absent == "absent"
Checksums == {"c1", "c2"}

\* The positions of Files that hold a file present on the server.
RECURSIVE PresentFrom(_, _)
PresentFrom(remote, i) ==
    IF i > Len(Files) THEN <<>>
    ELSE (IF remote[Files[i]] # Absent THEN <<Files[i]>> ELSE <<>>)
             \o PresentFrom(remote, i + 1)

\* download_and_check_for_update / check_files_for_updates with
\* save_new_checksum=False: each downloaded file with whether its checksum
\* differs from the saved one.
CheckFilesForUpdates(remote, saved) ==
    LET present == PresentFrom(remote, 1)
    IN  [i \in 1..Len(present) |->
            <<present[i], remote[present[i]] # saved[present[i]]>>]

\* FileManager.save_file(local_filepath, ...): the checksum of the local
\* copy becomes the file's saved fingerprint.
SaveFile(saved, file, checksum) == [saved EXCEPT ![file] = checksum]

\* What check_files_for_updates leaves in the store: with save_new_checksum
\* the checksum of every downloaded file is saved, without it nothing is.
SavedAfterCheck(remote, saved, save_new_checksum) ==
    IF save_new_checksum
    THEN [f \in DOMAIN saved |-> IF remote[f] # Absent THEN remote[f] ELSE saved[f]]
    ELSE saved

\* FlatFileSourceType, and a server_type that is none of its members
ServerTypes == {"quorum_sftp", "s3_bucket", "external_sftp", "invalid"}

\* A variant that lets the S3 download save the new checksums.
SaveNewChecksumOnS3(server_type) == server_type = "s3_bucket"

\* lines 742, 768, 780: every branch passes save_new_checksum=False
SaveNewChecksum(server_type) == FALSE

\* lines 407-414 with _get_sftp_filepaths_with_change (lines 716-782)
GetFilepathsWithChange ==
    /\ fpc = "start"
    /\ \E server_type \in ServerTypes :
         IF server_type = "invalid"
         THEN \* line 782
              /\ fpc' = "raised"
              /\ UNCHANGED <<filepaths_with_change, local_files, run_result,
                             fingerprints>>
         ELSE LET found == CheckFilesForUpdates(remote_files, fingerprints)
              IN  /\ filepaths_with_change' = found
                  /\ fingerprints' = SavedAfterCheck(remote_files, fingerprints,
                                                     SaveNewChecksum(server_type))
                  /\ local_files' = { found[i][1] : i \in 1..Len(found) }
                  /\ IF found = <<>>
                     THEN fpc' = "returned" /\ run_result' = "[]"
                     ELSE fpc' = "loop" /\ run_result' = run_result
    /\ file_pos' = 1
    /\ results' = <<>>
    /\ some_change' = FALSE
    /\ UNCHANGED <<remote_files, processed, saves>>

\* What processing one file may come to: the download or the conversion
\* raises, or send_df_to_quorum returns True, False or an error report, or
\* raises.
ProcessOutcomes == {"convert_raises", "True", "False", "errors", "send_raises"}

\* A variant that processes a file only when it changed or the run is dry.
ShouldProcessUnforced(has_changed) == has_changed \/ dry_run

\* line 418: a file is processed when it changed or the run is forced or dry
ShouldProcess(has_changed) == has_changed \/ force \/ dry_run

\* A variant that saves the checksum of every file that was delivered.
ShouldSaveDelivered(has_changed, outcome) == TRUE

\* lines 432-440: after send_df_to_quorum returned, whatever it returned,
\* the checksum is saved if the file has changed
ShouldSave(has_changed, outcome) == has_changed

\* A variant in which a dry run delivers like a live run.
DeliverAlways == FALSE

\* line 426: in a dry run the converted dataframe is kept, not delivered
ConvertOnly == dry_run

\* One pass of the for loop (lines 415-441).
ProcessFile ==
    /\ fpc = "loop"
    /\ file_pos <= Len(filepaths_with_change)
    /\ LET local_filepath == filepaths_with_change[file_pos][1]
           has_changed == filepaths_with_change[file_pos][2]
       IN  IF ~ ShouldProcess(has_changed)
           THEN /\ file_pos' = file_pos + 1
                /\ UNCHANGED <<fpc, fingerprints, results, some_change, processed, saves>>
           ELSE \E outcome \in ProcessOutcomes :
                  /\ dry_run => outcome \in {"convert_raises", "True"}
                  /\ IF outcome = "convert_raises"
                     THEN /\ fpc' = "raised"
                          /\ UNCHANGED <<fingerprints, results, some_change,
                                         processed, saves, file_pos>>
                     ELSE IF ConvertOnly
                     THEN \* lines 426-429
                          /\ results' = Append(results, "dry_run_result")
                          /\ processed' = Append(processed,
                                 [file |-> local_filepath, has_changed |-> has_changed,
                                  delivery |-> "none"])
                          /\ some_change' = TRUE
                          /\ file_pos' = file_pos + 1
                          /\ UNCHANGED <<fpc, fingerprints, saves>>
                     ELSE IF outcome = "send_raises"
                     THEN /\ fpc' = "raised"
                          /\ processed' = Append(processed,
                                 [file |-> local_filepath, has_changed |-> has_changed,
                                  delivery |-> outcome])
                          /\ UNCHANGED <<fingerprints, results, some_change, saves, file_pos>>
                     ELSE \* lines 432-441
                          /\ results' = Append(results, outcome)
                          /\ processed' = Append(processed,
                                 [file |-> local_filepath, has_changed |-> has_changed,
                                  delivery |-> outcome])
                          /\ IF ShouldSave(has_changed, outcome)
                             THEN /\ fingerprints' = SaveFile(fingerprints, local_filepath,
                                                              remote_files[local_filepath])
                                  /\ saves' = Append(saves, [file |-> local_filepath,
                                                             delivery |-> outcome])
                             ELSE UNCHANGED <<fingerprints, saves>>
                          /\ some_change' = TRUE
                          /\ file_pos' = file_pos + 1
                          /\ fpc' = fpc
    /\ UNCHANGED <<remote_files, filepaths_with_change, local_files, run_result>>

\* lines 443-462: the loop is over; the local copies are removed and the
\* run returns.
FinishRun ==
    /\ fpc = "loop"
    /\ file_pos > Len(filepaths_with_change)
    /\ local_files' = {}
    /\ run_result' = IF dry_run THEN "results"
                     ELSE IF \E i \in 1..Len(results) : results[i] = "False"
                          THEN "False" ELSE "True"
    /\ fpc' = "returned"
    /\ UNCHANGED <<remote_files, fingerprints, filepaths_with_change, file_pos,
                   results, some_change, processed, saves>>

\* The task is run again later, against the same server and the same
\* fingerprint store.
RunAgain ==
    /\ fpc \in {"returned", "raised"}
    /\ fpc' = "start"
    /\ filepaths_with_change' = <<>>
    /\ file_pos' = 0
    /\ results' = <<>>
    /\ some_change' = FALSE
    /\ local_files' = {}
    /\ run_result' = ""
    /\ processed' = <<>>
    /\ saves' = <<>>
    /\ UNCHANGED <<remote_files, fingerprints>>

SftpRest ==
    /\ fpc = "rest"
    /\ remote_files = [i \in {} |-> Absent]
    /\ fingerprints = [i \in {} |-> Absent]
    /\ filepaths_with_change = <<>> /\ file_pos = 0 /\ results = <<>>
    /\ some_change = FALSE /\ local_files = {} /\ run_result = ""
    /\ processed = <<>> /\ saves = <<>>

FileNames == { Files[i] : i \in 1..Len(Files) }

(***************************************************************************)
(* NewSalesforceIntegration.run_task_from_quorum_to_external_crm           *)
(***************************************************************************)
VARIABLES
    tpc,                \* "rest" | "task" | "sending" | "returned" | "raised"
    quorum_df,          \* the dataframe handed to normalize_sf_field_types
    error_messages,     \* normalize_sf_field_types: its error_messages
    error_fatal,        \* normalize_sf_field_types: its error_fatal
    normalized,         \* history: normalize_sf_field_types ran to its end or raised
    salesforce_df,      \* the converted dataframe
    task_raised,        \* the exception the task ended with ("" for none)
    task_result         \* what the task returned ("" before it returns)

taskVars == <<tpc, quorum_df, error_messages, error_fatal, normalized,
              salesforce_df, task_raised, task_result>>

NoDataframe == [columns |-> <<>>, rows |-> <<>>]

\* The schema Salesforce describes for the task's model.
ContactDefinitions ==
    ("Id" :> FieldDefinition("id", 18, NoPickList))
      @@ ("AccountId" :> FieldDefinition("reference", 18, NoPickList))
      @@ ("Birthdate" :> FieldDefinition("date", 0, NoPickList))
      @@ ("Status__c" :> FieldDefinition("picklist", 255, PickListOf(<<"IL", "CA">>)))
      @@ ("LastName" :> FieldDefinition("string", 5, NoPickList))
      @@ ("Active__c" :> FieldDefinition("boolean", 0, NoPickList))
      @@ ("Notes__c" :> FieldDefinition("textarea", 255, NoPickList))

\* The columns a task's dataframe may have, in dataframe order.
TaskColumns == <<"quorum_side_primary_key", "Id", "AccountId", "Birthdate",
                 "Status__c", "LastName", "Notes__c", "Bogus__c">>

\* The values tried in each column: one the schema accepts and one it
\* reports (for the list value: refuses).
CellValues(field_name) ==
    CASE field_name = "quorum_side_primary_key" -> {PyInt(7), None}
      [] field_name = "Id" -> {PyStr(<<"003000000000001AAA">>), PyStr(<<"003">>)}
      [] field_name = "AccountId" -> {None, PyStr(<<"001">>)}
      [] field_name = "Birthdate" -> {PyDate(19800229), PyStr(<<"1980">>), None}
      [] field_name = "Status__c" -> {PyStr(<<"IL">>), PyStr(<<"Illinois">>)}
      [] field_name = "LastName" -> {PyStr(<<"Smith">>), PyStr(<<"Smithers">>)}
      [] field_name = "Notes__c" -> {PyStr(<<"memo">>), PyList(<<"memo">>)}
      [] OTHER -> {PyStr(<<"x">>), None}

RECURSIVE Pick(_, _, _)
\* The columns of TaskColumns whose positions are in chosen, in order.
Pick(chosen, i, columns) ==
    IF i > Len(columns) THEN <<>>
    ELSE (IF i \in chosen THEN <<columns[i]>> ELSE <<>>) \o Pick(chosen, i + 1, columns)

ColumnLists(max) ==
    { Pick(chosen, 1, TaskColumns) :
        chosen \in { c \in SUBSET (1..Len(TaskColumns)) : Cardinality(c) <= max } }

AllCellValues == UNION { CellValues(TaskColumns[i]) : i \in 1..Len(TaskColumns) }

\* The rows over the given columns.
RowsOver(columns) ==
    LET names == { columns[i] : i \in 1..Len(columns) }
    IN  { r \in [names -> AllCellValues] : \A c \in names : r[c] \in CellValues(c) }

\* The dataframes of at most maxcols columns and at most maxrows rows.
Dataframes(maxcols, maxrows) ==
    UNION { { [columns |-> columns, rows |-> rows] :
                rows \in UNION { [1..m -> RowsOver(columns)] : m \in 0..maxrows } } :
            columns \in ColumnLists(maxcols) }

\* df.empty: no rows or no columns
Empty(df) == df.rows = <<>> \/ df.columns = <<>>

\* lines 641-659 up to the call of send_external_df_to_external.  The
\* conversion (line 647, which ends in normalize_sf_field_types, line 201)
\* is outside the try block: what it raises leaves the task.
RunTask ==
    /\ tpc = "task"
    /\ IF Empty(quorum_df)
       THEN \* line 645
            /\ tpc' = "returned" /\ task_result' = "None"
            /\ UNCHANGED <<error_messages, error_fatal, normalized, salesforce_df,
                           task_raised, sendVars>>
       ELSE LET done == NormalizeSfFieldTypes(quorum_df, ContactDefinitions)
            IN  /\ error_messages' = done.errors
                /\ error_fatal' = done.fatal
                /\ normalized' = TRUE
                /\ IF done.raises # ""
                   THEN /\ tpc' = "raised" /\ task_raised' = done.raises
                        /\ UNCHANGED <<salesforce_df, task_result, sendVars>>
                   ELSE /\ salesforce_df' = done.dataframe
                        /\ task_raised' = task_raised
                        /\ IF dry_run
                           THEN \* lines 652-654
                                /\ tpc' = "returned" /\ task_result' = "salesforce_df"
                                /\ UNCHANGED sendVars
                           ELSE \* line 657
                                /\ tpc' = "sending" /\ task_result' = task_result
                                /\ upc' = "send"
                                /\ salesforce_model' = "Contact"
                                /\ send_df' = done.dataframe.rows
                                /\ external_list' = done.dataframe.rows
                                /\ UNCHANGED <<sf_max_batch_size, match_on, store_sf_ids,
                                               has_custom_slug, external_id_dictionary,
                                               num_chunks, current_chunk, quorum_id_list,
                                               total_results, overall_success, in_flight,
                                               sent, responses, chunk_results, fault,
                                               notifications, ledger_ids, send_result,
                                               raised, requeried>>
    /\ UNCHANGED quorum_df

\* lines 656-659: send_external_df_to_external returned, or raised and the
\* exception is logged; the task then returns the result, or None.
TaskSendEnds ==
    /\ tpc = "sending"
    /\ upc \in {"returned", "raised"}
    /\ tpc' = "returned"
    /\ task_result' = IF upc = "returned" THEN send_result ELSE "None"
    /\ UNCHANGED <<quorum_df, error_messages, error_fatal, normalized, salesforce_df,
                   task_raised, sendVars>>

TaskRest ==
    /\ tpc = "rest" /\ quorum_df = NoDataframe /\ error_messages = <<>>
    /\ error_fatal = FALSE /\ normalized = FALSE /\ salesforce_df = NoDataframe
    /\ task_raised = "" /\ task_result = ""

(***************************************************************************)
(* SalesforceAPIWrapper.query_sf with async_queries                        *)
(***************************************************************************)
VARIABLES
    qpc,                \* "rest" | "pool" | "returned" | "raised"
    where_clauses,      \* the where clauses to query, one future each
    futures,            \* per clause: the state of its future and its records
    handled,            \* the futures the as_completed loop has gone through
    all_records,        \* the aggregate
    fetched,            \* history: the clauses whose fetch was started
    query_result        \* what query_sf returned ("" before it returns)

queryVars == <<qpc, where_clauses, futures, handled, all_records, fetched,
               query_result>>

\* line 797: ThreadPoolExecutor(max_workers=5)
MaxWorkers == 5

Future(state, records) == [state |-> state, records |-> records]

\* What _run_sf_query may return for the clause at position i: no record, or
\* two records of that clause.
RecordsFor(i) ==
    { <<>>, <<[clause |-> i, row |-> 1], [clause |-> i, row |-> 2]>> }

Running == { i \in DOMAIN futures : futures[i].state = "running" }

\* A worker of the pool takes a submitted fetch (lines 797-798).
FetchStarts ==
    /\ qpc = "pool"
    /\ Cardinality(Running) < MaxWorkers
    /\ \E i \in DOMAIN futures :
         /\ futures[i].state = "pending"
         /\ futures' = [futures EXCEPT ![i] = Future("running", <<>>)]
         /\ fetched' = fetched \cup {i}
    /\ UNCHANGED <<qpc, where_clauses, handled, all_records, query_result>>

\* fetch_records returns the records of _run_sf_query (lines 788-794).
FetchReturns ==
    /\ qpc = "pool"
    /\ \E i \in Running : \E records \in RecordsFor(i) :
         futures' = [futures EXCEPT ![i] = Future("done", records)]
    /\ UNCHANGED <<qpc, where_clauses, handled, all_records, fetched, query_result>>

\* _run_sf_query raises inside the worker; the future keeps the exception.
FetchRaises ==
    /\ qpc = "pool"
    /\ \E i \in Running :
         futures' = [futures EXCEPT ![i] = Future("raised", <<>>)]
    /\ UNCHANGED <<qpc, where_clauses, handled, all_records, fetched, query_result>>

\* A variant in which the exception of a future leaves query_sf.
ExceptionEscapes == FALSE

\* lines 803-804: except Exception: the exception is logged
ExceptionCaught == TRUE

\* One pass of the loop over as_completed (lines 799-808): a completed
\* future not yet gone through is taken, in any order of completion.
HandleCompleted ==
    /\ qpc = "pool"
    /\ \E i \in DOMAIN futures \ handled :
         /\ futures[i].state \in {"done", "raised"}
         /\ handled' = handled \cup {i}
         /\ IF futures[i].state = "raised"
            THEN /\ qpc' = IF ExceptionCaught THEN qpc ELSE "raised"
                 /\ all_records' = all_records
            ELSE /\ qpc' = qpc
                 /\ all_records' = IF futures[i].records # <<>>
                                   THEN all_records \o futures[i].records
                                   ELSE all_records
    /\ UNCHANGED <<where_clauses, futures, fetched, query_result>>

\* lines 824-832: every future has been gone through; the aggregate is
\* returned as a dataframe (an empty one when there is no record).
QueryReturns ==
    /\ qpc = "pool"
    /\ handled = DOMAIN futures
    /\ qpc' = "returned"
    /\ query_result' = IF all_records = <<>> THEN "empty dataframe" ELSE "dataframe"
    /\ UNCHANGED <<where_clauses, futures, handled, all_records, fetched>>

QueryRest ==
    /\ qpc = "rest" /\ where_clauses = <<>> /\ futures = <<>> /\ handled = {}
    /\ all_records = <<>> /\ fetched = {} /\ query_result = ""

(***************************************************************************)
(* SalesforceAPIWrapper._send_records_one_at_a_time, called twice with the *)
(* same records.                                                           *)
(***************************************************************************)
VARIABLES
    rpc,                \* "rest" | "first" | "second" | "done"
    note_records,       \* external_list: the records of the one chunk
    note_match_on,      \* match_on as run_upsert_to_sf passes it
    first_replies,      \* history: what Salesforce answered to the first call
    first_list,         \* upsert_result_list of the first call
    second_list         \* upsert_result_list of the second call

resubmitVars == <<rpc, note_records, note_match_on, first_replies, first_list,
                  second_list>>

\* lines 1045-1048: the records as _run_upsert_chunk hands them over, the
\* internal id popped
WithoutQuorumId(records) ==
    [i \in 1..Len(records) |-> PopRest(records[i], "quorum_side_primary_key")]

\* The ContentNote record at position i as the caller may hold it: with or
\* without a Salesforce id, with or without a value in the match field.
NoteRecordsAt(i) ==
    RecordsAt("ContentNote", i)
        \cup { [r EXCEPT !["Quorum_ID__c"] = None] : r \in RecordsAt("ContentNote", i) }

\* The lists of up to max such records.
NoteFrames(max) ==
    UNION { { f \in [1..m -> UNION { NoteRecordsAt(i) : i \in 1..m }] :
                \A i \in 1..m : f[i] \in NoteRecordsAt(i) } : m \in 1..max }

\* A variant in which a record whose call raises gets no result.
SendRecordsSkippingFaults(records, matchOn, replies, first) ==
    LET NotFault(result) == result # ExceptResult
    IN  SelectSeq(SendRecordsOneAtATime(records, matchOn, replies, first), NotFault)

\* The call of lines 1052-1056.
UpsertResultList(records, matchOn, replies, first) ==
    SendRecordsOneAtATime(records, matchOn, replies, first)

\* The answers to a call that repeats an earlier one: the update goes
\* through or raises; a record without a match value is created.
RepeatReplies == [update : {204, 0}, create : {"ok"}]

\* The first call of _send_records_one_at_a_time (lines 1145-1220).
FirstSubmit ==
    /\ rpc = "first"
    /\ \E replies \in [1..Len(note_records) -> Replies] :
         /\ first_replies' = replies
         /\ first_list' = UpsertResultList(note_records, note_match_on, replies, 1)
    /\ rpc' = "second"
    /\ UNCHANGED <<note_records, note_match_on, second_list>>

\* The second call, with the same records and the same match field.
SecondSubmit ==
    /\ rpc = "second"
    /\ \E replies \in [1..Len(note_records) -> RepeatReplies] :
         second_list' = UpsertResultList(note_records, note_match_on, replies, 1)
    /\ rpc' = "done"
    /\ UNCHANGED <<note_records, note_match_on, first_replies, first_list>>

ResubmitRest ==
    /\ rpc = "rest" /\ note_records = <<>> /\ note_match_on = ""
    /\ first_replies = <<>> /\ first_list = <<>> /\ second_list = <<>>

(***************************************************************************)
(* NewSFTPIntegration.run_task_from_quorum_to_external_crm with            *)
(* send_external_df_to_external and upload_to_remote                       *)
(***************************************************************************)
VARIABLES
    opc,                \* "rest" | "task" | "returned" | "raised"
    server_type,        \* self.server_type
    sftp_file_name,     \* task.sftp_file_name (no date placeholder in it)
    external_df,        \* the converted dataframe, or NotADataframe
    uploads,            \* history: what was put on a remote server
    saved_locally,      \* history: save_dataframe_locally calls
    upload_returned,    \* what upload_to_remote returned ("" when not called)
    out_result,         \* what the run returned ("" before it returns)
    out_raised          \* the exception the run ended with ("" for none)

uploadVars == <<opc, server_type, sftp_file_name, external_df, uploads,
                saved_locally, upload_returned, out_result, out_raised>>

\* What get_df_from_quorum gives when it finds nothing to send.
NotADataframe == [columns |-> <<>>, rows |-> 0]

\* filename.endswith(suffix)
EndsWith(filename, suffix) ==
    /\ Len(filename) >= Len(suffix)
    /\ SubSeq(filename, Len(filename) - Len(suffix) + 1, Len(filename)) = suffix

\* A file put on a server: its name and its content, which is the CSV of
\* the columns given, encrypted or not.
Upload(server, filename, columns, encrypted) ==
    [server |-> server, filename |-> filename, columns |-> columns,
     encrypted |-> encrypted]

\* The result of upload_to_remote: what it returned or raised, and the
\* files it put on the server.
UploadOutcome(returned, exc, put) == [returned |-> returned, raises |-> exc, put |-> put]

\* lines 697-709: upload_records_to_external_ftp is given the records and
\* filetype='csv' and writes them out again as plain CSV (lines 136, 95),
\* whatever file object was prepared before
ExternalUploadIsEncrypted(filename) == FALSE

\* upload_to_remote (lines 617-714).  encrypted_ok: encrypt_data returned
\* the encrypted bytes rather than None; transfer: "ok" or "raises", what
\* the transfer to the server comes to.
UploadToRemote(output_df, filename, encrypted_ok, transfer) ==
    IF dry_run
    THEN UploadOutcome("", "ValueError", <<>>)                    \* lines 628-630
    ELSE IF server_type \in {"quorum_sftp", "external_sftp"}
    THEN IF EndsWith(filename, <<".csv", ".gpg">>) /\ ~ encrypted_ok
         THEN UploadOutcome("False", "", <<>>)                    \* lines 646-649, 677-680
         ELSE IF ~ EndsWith(filename, <<".csv", ".gpg">>) /\ ~ EndsWith(filename, <<".csv">>)
         THEN UploadOutcome("", "NotImplementedError", <<>>)      \* lines 658-659, 689-690
         ELSE IF transfer = "raises"
         THEN UploadOutcome("", IF server_type = "quorum_sftp"
                                THEN "Exception" ELSE "ValueError", <<>>)
         ELSE IF server_type = "quorum_sftp"
         THEN \* lines 661-665: the file object prepared above is uploaded
              UploadOutcome("True", "",
                  <<Upload(server_type, filename, output_df.columns,
                           EndsWith(filename, <<".csv", ".gpg">>))>>)
         ELSE \* lines 692-712
              UploadOutcome("True", "",
                  <<Upload(server_type, filename, output_df.columns,
                           ExternalUploadIsEncrypted(filename))>>)
    ELSE \* no branch for any other server type: the function ends, None
         UploadOutcome("None", "", <<>>)

\* lines 484-485: the result of send_external_df_to_external is dropped
\* and the run returns True
RunReturns(upload_result) == "True"

\* Dropping a column of a dataframe.
DropColumn(df, name) ==
    LET Other(c) == c # name
    IN  [df EXCEPT !.columns = SelectSeq(df.columns, Other)]

\* run_task_from_quorum_to_external_crm (lines 464-485) with
\* send_external_df_to_external (lines 250-287).
RunOutboundTask ==
    /\ opc = "task"
    /\ IF external_df = NotADataframe
       THEN \* lines 478-481
            /\ opc' = "returned" /\ out_result' = "False"
            /\ UNCHANGED <<uploads, saved_locally, upload_returned, out_raised>>
       ELSE IF dry_run
       THEN \* lines 277-280
            /\ saved_locally' = Append(saved_locally, sftp_file_name)
            /\ opc' = "returned" /\ out_result' = RunReturns("Success")
            /\ UNCHANGED <<uploads, upload_returned, out_raised>>
       ELSE \E encrypted_ok \in BOOLEAN, transfer \in {"ok", "raises"} :
              LET output_df == DropColumn(external_df, "quorum_side_primary_key")
                  done == UploadToRemote(output_df, sftp_file_name, encrypted_ok, transfer)
              IN  /\ uploads' = uploads \o done.put
                  /\ upload_returned' = done.returned
                  /\ IF done.raises # ""
                     THEN /\ opc' = "raised" /\ out_raised' = done.raises
                          /\ out_result' = out_result
                     ELSE /\ opc' = "returned" /\ out_result' = RunReturns(done.returned)
                          /\ out_raised' = out_raised
                  /\ UNCHANGED saved_locally
    /\ UNCHANGED <<server_type, sftp_file_name, external_df>>

UploadRest ==
    /\ opc = "rest" /\ server_type = "" /\ sftp_file_name = <<>>
    /\ external_df = NotADataframe /\ uploads = <<>> /\ saved_locally = <<>>
    /\ upload_returned = "" /\ out_result = "" /\ out_raised = ""

\* The file names tried, as the pieces that matter to endswith.
FileNamesOut == { <<"out", ".csv">>, <<"out", ".csv", ".gpg">>, <<"out", ".txt">> }

\* The dataframes tried: nothing to send, or up to max rows with or without
\* the bookkeeping column.
OutFrames(max) ==
    {NotADataframe}
      \cup { [columns |-> c, rows |-> n] :
               c \in { <<"name">>, <<"quorum_side_primary_key", "name">> },
               n \in 1..max }

(***************************************************************************)
(* Specifications.                                                         *)
(***************************************************************************)
vars == <<whereVars, sendVars, selfVars, sftpVars, taskVars, queryVars, resubmitVars, uploadVars>>

Init == InitUpsert /\ WhereRest /\ SelfRest /\ SftpRest /\ TaskRest /\ QueryRest /\ ResubmitRest /\ UploadRest

InitReconcile == InitSend /\ WhereRest /\ SelfRest /\ SftpRest /\ TaskRest /\ QueryRest /\ ResubmitRest /\ UploadRest

Next ==
    \/ SendStart /\ UNCHANGED <<whereVars, selfVars, sftpVars, taskVars, queryVars, resubmitVars, uploadVars>>
    \/ SubmitChunk /\ UNCHANGED <<whereVars, selfVars, sftpVars, taskVars, queryVars, resubmitVars, uploadVars>>
    \/ ChunkReturns /\ UNCHANGED <<whereVars, selfVars, sftpVars, taskVars, queryVars, resubmitVars, uploadVars>>
    \/ ChunkFaults /\ UNCHANGED <<whereVars, selfVars, sftpVars, taskVars, queryVars, resubmitVars, uploadVars>>
    \/ UpsertLoopEnds /\ UNCHANGED <<whereVars, selfVars, sftpVars, taskVars, queryVars, resubmitVars, uploadVars>>
    \/ Reconcile /\ UNCHANGED <<whereVars, selfVars, sftpVars, taskVars, queryVars, resubmitVars, uploadVars>>

Spec == Init /\ [][Next]_vars

SpecSend == InitReconcile /\ [][Next]_vars

InitWhere ==
    /\ SendRest /\ SelfRest /\ SftpRest /\ TaskRest /\ QueryRest /\ ResubmitRest /\ UploadRest
    /\ wpc = "loop"
    /\ search_values \in SeqsUpTo(CandidateRecords, MaxSearch)
    /\ field_mapping \in FieldMappings
    /\ idx = 0
    /\ current_where = ""
    /\ sf_where_clauses = <<>>
    /\ cur_preds = <<>>
    /\ clause_preds = <<>>

NextWhere ==
    \/ BuildWhereStep /\ UNCHANGED <<sendVars, selfVars, sftpVars, taskVars, queryVars, resubmitVars, uploadVars>>
    \/ BuildWhereReturn /\ UNCHANGED <<sendVars, selfVars, sftpVars, taskVars, queryVars, resubmitVars, uploadVars>>

SpecWhere == InitWhere /\ [][NextWhere]_vars

\* The SFTP inbound run against every server content and fingerprint store.
InitSftp ==
    /\ WhereRest /\ SendRest /\ TaskRest /\ QueryRest /\ ResubmitRest /\ UploadRest
    /\ force \in BOOLEAN
    /\ dry_run \in BOOLEAN
    /\ fpc = "start"
    /\ remote_files \in [FileNames -> Checksums \cup {Absent}]
    /\ fingerprints \in [FileNames -> {"c1", Absent}]
    /\ filepaths_with_change = <<>> /\ file_pos = 0 /\ results = <<>>
    /\ some_change = FALSE /\ local_files = {} /\ run_result = ""
    /\ processed = <<>> /\ saves = <<>>

NextSftp ==
    \/ GetFilepathsWithChange /\ UNCHANGED <<whereVars, sendVars, selfVars, taskVars, queryVars, resubmitVars, uploadVars>>
    \/ ProcessFile /\ UNCHANGED <<whereVars, sendVars, selfVars, taskVars, queryVars, resubmitVars, uploadVars>>
    \/ FinishRun /\ UNCHANGED <<whereVars, sendVars, selfVars, taskVars, queryVars, resubmitVars, uploadVars>>
    \/ RunAgain /\ UNCHANGED <<whereVars, sendVars, selfVars, taskVars, queryVars, resubmitVars, uploadVars>>

SpecSftp == InitSftp /\ [][NextSftp]_vars

\* The outbound Salesforce task on every dataframe of at most MaxCols
\* columns and MaxRows rows, for a bulk model that stores no ids.
InitTask ==
    /\ WhereRest /\ SendRest /\ SftpRest /\ QueryRest /\ ResubmitRest /\ UploadRest
    /\ force \in BOOLEAN
    /\ dry_run \in BOOLEAN
    /\ tpc = "task"
    /\ quorum_df \in Dataframes(MaxCols, MaxRows)
    /\ error_messages = <<>> /\ error_fatal = FALSE /\ normalized = FALSE
    /\ salesforce_df = NoDataframe /\ task_raised = "" /\ task_result = ""

NextTask ==
    \/ RunTask /\ UNCHANGED <<whereVars, selfVars, sftpVars, queryVars, resubmitVars, uploadVars>>
    \/ SendStart /\ UNCHANGED <<whereVars, selfVars, sftpVars, taskVars, queryVars, resubmitVars, uploadVars>>
    \/ SubmitChunk /\ UNCHANGED <<whereVars, selfVars, sftpVars, taskVars, queryVars, resubmitVars, uploadVars>>
    \/ ChunkReturns /\ UNCHANGED <<whereVars, selfVars, sftpVars, taskVars, queryVars, resubmitVars, uploadVars>>
    \/ ChunkFaults /\ UNCHANGED <<whereVars, selfVars, sftpVars, taskVars, queryVars, resubmitVars, uploadVars>>
    \/ UpsertLoopEnds /\ UNCHANGED <<whereVars, selfVars, sftpVars, taskVars, queryVars, resubmitVars, uploadVars>>
    \/ Reconcile /\ UNCHANGED <<whereVars, selfVars, sftpVars, taskVars, queryVars, resubmitVars, uploadVars>>
    \/ TaskSendEnds /\ UNCHANGED <<whereVars, selfVars, sftpVars, queryVars, resubmitVars, uploadVars>>

SpecTask == InitTask /\ [][NextTask]_vars

\* query_sf with async_queries on up to MaxClauses where clauses: every
\* future has been submitted to the pool.
InitQuery ==
    /\ WhereRest /\ SendRest /\ SelfRest /\ SftpRest /\ TaskRest /\ ResubmitRest /\ UploadRest
    /\ qpc = "pool"
    /\ \E n \in 1..MaxClauses :
         /\ where_clauses = [i \in 1..n |-> "where " \o IntStr(i)]
         /\ futures = [i \in 1..n |-> Future("pending", <<>>)]
    /\ handled = {} /\ all_records = <<>> /\ fetched = {} /\ query_result = ""

NextQuery ==
    \/ FetchStarts /\ UNCHANGED <<whereVars, sendVars, selfVars, sftpVars, taskVars, resubmitVars, uploadVars>>
    \/ FetchReturns /\ UNCHANGED <<whereVars, sendVars, selfVars, sftpVars, taskVars, resubmitVars, uploadVars>>
    \/ FetchRaises /\ UNCHANGED <<whereVars, sendVars, selfVars, sftpVars, taskVars, resubmitVars, uploadVars>>
    \/ HandleCompleted /\ UNCHANGED <<whereVars, sendVars, selfVars, sftpVars, taskVars, resubmitVars, uploadVars>>
    \/ QueryReturns /\ UNCHANGED <<whereVars, sendVars, selfVars, sftpVars, taskVars, resubmitVars, uploadVars>>

SpecQuery == InitQuery /\ [][NextQuery]_vars

\* ContentNote records of up to MaxStored records sent twice, matched on Id
\* or on the external id field.
InitResubmit ==
    /\ WhereRest /\ SendRest /\ SelfRest /\ SftpRest /\ TaskRest /\ QueryRest /\ UploadRest
    /\ rpc = "first"
    /\ \E frame \in NoteFrames(MaxStored) :
         note_records = WithoutQuorumId(frame)
    /\ \E m \in MatchOns("ContentNote") : note_match_on = MatchOnOf(m)
    /\ first_replies = <<>> /\ first_list = <<>> /\ second_list = <<>>

NextResubmit ==
    \/ FirstSubmit /\ UNCHANGED <<whereVars, sendVars, selfVars, sftpVars, taskVars, queryVars, uploadVars>>
    \/ SecondSubmit /\ UNCHANGED <<whereVars, sendVars, selfVars, sftpVars, taskVars, queryVars, uploadVars>>

SpecResubmit == InitResubmit /\ [][NextResubmit]_vars

\* The SFTP outbound run for every server type, file name and dataframe.
InitUpload ==
    /\ WhereRest /\ SendRest /\ SftpRest /\ TaskRest /\ QueryRest /\ ResubmitRest
    /\ force \in BOOLEAN
    /\ dry_run \in BOOLEAN
    /\ opc = "task"
    /\ server_type \in {"quorum_sftp", "s3_bucket", "external_sftp"}
    /\ sftp_file_name \in FileNamesOut
    /\ external_df \in OutFrames(MaxRows)
    /\ uploads = <<>> /\ saved_locally = <<>>
    /\ upload_returned = "" /\ out_result = "" /\ out_raised = ""

NextUpload ==
    RunOutboundTask /\ UNCHANGED <<whereVars, sendVars, selfVars, sftpVars, taskVars,
                                   queryVars, resubmitVars>>

SpecUpload == InitUpload /\ [][NextUpload]_vars

\* The three runs that write outwards: the SFTP inbound run, the Salesforce
\* outbound task and the SFTP outbound run, each dry and live.
InitRuns == InitSftp \/ InitTask \/ InitUpload

NextRuns == NextSftp \/ NextTask \/ NextUpload

SpecRuns == InitRuns /\ [][NextRuns]_vars

(***************************************************************************)
(* Claims about _sf_build_where_clauses (checked under SpecWhere).         *)
(***************************************************************************)
\* Every predicate built so far, finished clauses first.
AllPreds ==
    LET Flat[i \in 0..Len(clause_preds)] ==
            IF i = 0 THEN <<>> ELSE Flat[i - 1] \o clause_preds[i]
    IN  Flat[Len(clause_preds)] \o cur_preds

\* C1: every where clause returned has serialized length at most
\* MAX_WHERE_CLAUSE, except a clause that consists of a single predicate
\* which alone exceeds the maximum.
C1_ClauseWithinMax ==
    \A i \in 1..Len(sf_where_clauses) :
        \/ Len(sf_where_clauses[i]) <= MAX_WHERE_CLAUSE
        \/ /\ Len(clause_preds[i]) = 1
           /\ Len(clause_preds[i][1].text) > MAX_WHERE_CLAUSE

\* C7 (as claimed): within each predicate the comparisons appear in
\* lexicographic order of the Salesforce (external) field name.
C7_OrderedBySfName ==
    \A p \in 1..Len(AllPreds) :
        \A i \in 1..(Len(AllPreds[p].items) - 1) :
            ~ StrLess(AllPreds[p].items[i + 1].name, AllPreds[p].items[i].name)

\* C7 (amended): within each predicate the comparisons appear in strictly
\* ascending lexicographic order of the internal key of the field mapping,
\* and the text of the predicate is these comparisons joined in that order.
C7_OrderedByKey ==
    \A p \in 1..Len(AllPreds) :
        /\ \A i \in 1..(Len(AllPreds[p].items) - 1) :
               StrLess(AllPreds[p].items[i].key, AllPreds[p].items[i + 1].key)
        /\ \A i \in 1..Len(AllPreds[p].items) :
               AllPreds[p].items[i].name = field_mapping[AllPreds[p].items[i].key]
        /\ AllPreds[p].text = CurrentClause(AllPreds[p].items)

\* C7 witness: the function returned a clause holding a predicate of two
\* comparisons whose field names are in descending order.
C7_Witness ==
    /\ wpc = "done"
    /\ \E c \in 1..Len(clause_preds) : \E p \in 1..Len(clause_preds[c]) :
           /\ Len(clause_preds[c][p].items) = 2
           /\ StrLess(clause_preds[c][p].items[2].name, clause_preds[c][p].items[1].name)

\* The mapped keys under which a candidate record holds a value.
NonNullKeys(record) == { k \in DOMAIN field_mapping : Get(record, k) # None }

\* The predicates built so far for the candidate at enumerate() index i.
PredsOf(i) == { p \in 1..Len(AllPreds) : AllPreds[p].rec = i }

\* C16: no predicate holds a comparison for a null value: the comparisons
\* of a predicate are exactly the mapped fields under which its candidate
\* holds a value; a candidate whose mapped fields are all null gets no
\* predicate, so no predicate is the empty "()" and no chunk is empty.
C16_NoNullComparison ==
    /\ \A p \in 1..Len(AllPreds) :
          LET record == search_values[AllPreds[p].rec + 1]
              items == AllPreds[p].items
          IN  /\ items # <<>>
              /\ { items[i].key : i \in 1..Len(items) } = NonNullKeys(record)
              /\ Len(items) = Cardinality(NonNullKeys(record))
              /\ \A i \in 1..Len(items) :
                    items[i].text = WhereItem(items[i].name, Get(record, items[i].key))
              /\ AllPreds[p].text # "()"
    /\ \A i \in 0..(idx - 1) :
          NonNullKeys(search_values[i + 1]) = {} => PredsOf(i) = {}
    /\ \A c \in 1..Len(sf_where_clauses) :
          sf_where_clauses[c] # "" /\ clause_preds[c] # <<>>

\* C16 witness: the function returned one chunk for an all-null candidate
\* followed by a candidate with one null field of two.
C16_Witness ==
    /\ wpc = "done"
    /\ Len(search_values) = 2
    /\ Cardinality(DOMAIN field_mapping) = 2
    /\ NonNullKeys(search_values[1]) = {}
    /\ Cardinality(NonNullKeys(search_values[2])) = 1
    /\ Len(sf_where_clauses) = 1
    /\ Len(AllPreds) = 1 /\ AllPreds[1].rec = 1 /\ Len(AllPreds[1].items) = 1

\* C17: when the function has returned, every candidate with at least one
\* non-null mapped field has its predicate in exactly one returned chunk,
\* the predicates follow the order of the candidates, and nothing stays
\* behind in an unclosed last chunk, also when the trailing candidates are
\* all-null and skipped.
C17_EveryCandidateInOneChunk ==
    wpc = "done" =>
        LET Flat[i \in 0..Len(clause_preds)] ==
                IF i = 0 THEN <<>> ELSE Flat[i - 1] \o clause_preds[i]
            returned == Flat[Len(clause_preds)]
        IN  /\ cur_preds = <<>> /\ current_where = ""
            /\ \A i \in 0..(Len(search_values) - 1) :
                  NonNullKeys(search_values[i + 1]) # {} =>
                      Cardinality({ p \in 1..Len(returned) : returned[p].rec = i }) = 1
            /\ \A p \in 1..(Len(returned) - 1) : returned[p].rec < returned[p + 1].rec
            /\ \A c \in 1..Len(sf_where_clauses) :
                  sf_where_clauses[c] =
                      Join(" OR ", [p \in 1..Len(clause_preds[c]) |-> clause_preds[c][p].text])

(***************************************************************************)
(* Claims about run_upsert_to_sf and _run_upsert_chunk (under Spec).       *)
(***************************************************************************)
\* The internal id of the i-th record of the frame passed in.
InputId(i) == PopValue(send_df[i], "quorum_side_primary_key")

\* The number of records of chunk k.
ChunkSize(k) == Chunks[k][2] - Chunks[k][1] + 1

\* The concatenation of the first n entries of a list of lists.
ConcatFirst(lists, n) ==
    LET Cat[i \in 0..n] == IF i = 0 THEN <<>> ELSE Cat[i - 1] \o lists[i]
    IN  Cat[n]

\* C2: when the submission of chunk k raises a transport-level fault
\* (malformed request or connection error), no chunk after k is submitted,
\* and run_upsert_to_sf returns overall success false with exactly the
\* outcomes of chunks 1..k-1.
C2_TransportFaultKeepsPrefix ==
    (fault.kind \in {"SalesforceMalformedRequest", "ConnectionError"}) =>
        /\ upc \in {"upsert_done", "returned"}
        /\ overall_success = FALSE
        /\ in_flight = {}
        /\ Len(sent) = fault.chunk
        /\ Len(chunk_results) = fault.chunk - 1
        /\ total_results = ConcatFirst(chunk_results, fault.chunk - 1)

\* C2 witness: three chunks, the second one faults, and the function has
\* returned the outcomes of the first chunk alone.
C2_Witness ==
    /\ upc = "upsert_done"
    /\ fault.kind = "ConnectionError" /\ fault.chunk = 2
    /\ Len(Chunks) = 3
    /\ total_results # <<>>
    /\ total_results = chunk_results[1]

\* C4: _run_upsert_chunk returns exactly one outcome per record of the
\* chunk, the i-th outcome carrying the i-th record's internal id, also when
\* the response holds fewer items than the chunk has records.
C4_OneOutcomePerRecord ==
    \A k \in 1..Len(chunk_results) :
        /\ Len(chunk_results[k]) = ChunkSize(k)
        /\ \A i \in 1..Len(chunk_results[k]) :
               chunk_results[k][i].quorum_id = InputId(Chunks[k][1] + i - 1)

\* C5: when no chunk faults and every response has one item per submitted
\* record, the outcomes returned by run_upsert_to_sf for M records are M
\* outcomes, the i-th carrying the internal id of the i-th input record.
C5_OutcomesInInputOrder ==
    ( /\ upc \in {"upsert_done", "returned", "raised"}
      /\ overall_success
      /\ \A k \in 1..Len(responses) : responses[k] = ChunkSize(k) ) =>
        /\ Len(total_results) = Len(send_df)
        /\ \A i \in 1..Len(total_results) : total_results[i].quorum_id = InputId(i)

\* C5 witness: a send of three records in two chunks (2 + 1) has returned,
\* every response complete and the second record without an internal id.
C5_Witness ==
    /\ upc = "upsert_done" /\ overall_success
    /\ Len(send_df) = 3 /\ Len(Chunks) = 2
    /\ responses = <<2, 1>>
    /\ InputId(1) # None /\ InputId(2) = None
    /\ Len(total_results) = 3

\* C6: chunk k+1 is submitted only after the submission of chunk k has
\* returned and its outcomes are in the result list; never are two
\* submissions in flight.
C6_SequentialChunks ==
    /\ Cardinality(in_flight) <= 1
    /\ \A j \in 1..Len(sent) : sent[j].chunk = j
    /\ Len(sent) >= 1 =>
          /\ Len(chunk_results) >= Len(sent) - 1
          /\ \A j \in 1..(Len(sent) - 1) : j \notin in_flight
          /\ ConcatFirst(chunk_results, Len(sent) - 1)
                = SubSeq(total_results, 1, Len(ConcatFirst(chunk_results, Len(sent) - 1)))

\* C6 witness: the second chunk is in flight and the outcomes of the first
\* are in the result list.
C6_Witness ==
    /\ in_flight = {2}
    /\ Len(chunk_results) = 1
    /\ total_results = chunk_results[1]
    /\ total_results # <<>>

\* C21: every record of every submission lacks quorum_side_primary_key and
\* is otherwise the input record; while a submission is in flight the
\* list of popped ids holds, position by position, the internal ids of the
\* chunk's records (None for a record that had none).
C21_KeyRemovedIdKept ==
    /\ \A j \in 1..Len(sent) :
          LET lo == Chunks[sent[j].chunk][1]
          IN  /\ Len(sent[j].records) = ChunkSize(sent[j].chunk)
              /\ \A i \in 1..Len(sent[j].records) :
                    /\ "quorum_side_primary_key" \notin DOMAIN sent[j].records[i]
                    /\ DOMAIN sent[j].records[i] =
                          DOMAIN send_df[lo + i - 1] \ {"quorum_side_primary_key"}
                    /\ \A f \in DOMAIN sent[j].records[i] :
                          sent[j].records[i][f] = send_df[lo + i - 1][f]
    /\ upc = "awaiting" =>
          LET k == current_chunk - 1
          IN  /\ Len(quorum_id_list) = ChunkSize(k)
              /\ \A i \in 1..Len(quorum_id_list) :
                    quorum_id_list[i] = InputId(Chunks[k][1] + i - 1)

\* C21 witness: the second chunk of a Contact send is in flight after a
\* first chunk of two records; its record came without an internal id.
C21_Witness ==
    /\ upc = "awaiting" /\ Len(sent) = 2 /\ salesforce_model = "Contact"
    /\ Len(sent[1].records) = 2 /\ Len(sent[2].records) = 1
    /\ InputId(1) # None
    /\ quorum_id_list = <<None>>

\* ceil(m / n) for n > 0
CeilDiv(m, n) == (m + n - 1) \div n

\* C22: for M records and maximum chunk size N, a run in which no submission
\* faults submits exactly ceil(M/N) chunks, each of at most N records, that
\* cover the records in input order without gap or overlap, and the chunk
\* total announced in the log equals ceil(M/N).
C22_ChunkCountAnnounced ==
    LET M == Len(send_df)
        N == MaxBatchSizeOf(sf_max_batch_size)
    IN  /\ upc \notin {"rest", "send"} => num_chunks = CeilDiv(M, N)
        /\ \A j \in 1..Len(sent) :
              /\ Len(sent[j].records) <= N
              /\ Len(sent[j].records) = (IF j * N <= M THEN N ELSE M - (j - 1) * N)
              /\ \A i \in 1..Len(sent[j].records) :
                    sent[j].records[i] = RecordSent(send_df[(j - 1) * N + i])
        /\ (upc = "upsert_done" /\ overall_success) => Len(sent) = CeilDiv(M, N)

\* C29: in every outcome produced by _run_upsert_chunk, success is true if
\* and only if sf_id is not None: no failed outcome carries an external id
\* and no successful outcome lacks one, whatever Salesforce answered.
C29_SuccessIffSfId ==
    \A k \in 1..Len(chunk_results) :
        \A i \in 1..Len(chunk_results[k]) :
            chunk_results[k][i].success <=> (chunk_results[k][i].sf_id # None)

\* C29 witness: a bulk chunk of two records has returned with a complete
\* response, the first record recorded as a failure without an external id
\* and the second as a success with the id Salesforce gave it.
C29_Witness ==
    /\ salesforce_model # "ContentNote"
    /\ Len(chunk_results) >= 1 /\ responses[1] = 2
    /\ Len(chunk_results[1]) = 2
    /\ ~ chunk_results[1][1].success /\ chunk_results[1][1].sf_id = None
    /\ chunk_results[1][2].success /\ chunk_results[1][2].sf_id = SfId(2)

\* C24: run_upsert_to_sf has true as its first result only if every input
\* record has an outcome and every outcome has success true.
C24_SuccessMeansAllSucceeded ==
    overall_success =>
        /\ Len(total_results) = Len(send_df)
        /\ \A i \in 1..Len(total_results) : total_results[i].success

(***************************************************************************)
(* Claims about send_external_df_to_external (under SpecSend).             *)
(***************************************************************************)
\* The send has ended, by a return or by an exception.
SendEnded == upc \in {"returned", "raised"}

\* The (internal id, external id) pairs of the outcomes that carry both.
QualifyingPairs ==
    { <<total_results[i].quorum_id, total_results[i].sf_id>> :
        i \in { j \in 1..Len(total_results) :
                  total_results[j].quorum_id # None /\ total_results[j].sf_id # None } }

\* The pairs attached to a notification.
PairsOf(note) ==
    { <<note.pairs[i].quorum_id, note.pairs[i].external_unique_id>> :
        i \in 1..Len(note.pairs) }

\* C10: when the upsert succeeded, ids are to be stored, some outcome
\* carries both ids and the entity has neither a dedicated id field nor an
\* entry in the identifier map, the send ends in a fatal error, never in
\* success, and the notification raised with it carries every qualifying
\* pair.
C10_NowhereToStoreIsFatal ==
    ( /\ SendEnded
      /\ overall_success /\ store_sf_ids
      /\ QualifyingPairs # {}
      /\ ~ has_custom_slug /\ ~ external_id_dictionary.present ) =>
        /\ upc = "raised" /\ raised = "ValueError"
        /\ send_result = ""
        /\ notifications # <<>>
        /\ PairsOf(notifications[Len(notifications)]) = QualifyingPairs
        /\ ledger_ids = <<>>

\* C10 witness: two successful outcomes with both ids, no destination: the
\* send raised and the notification carries both pairs.
C10_Witness ==
    /\ upc = "raised" /\ raised = "ValueError"
    /\ Cardinality(QualifyingPairs) = 2
    /\ Len(notifications) = 1
    /\ Len(notifications[1].pairs) = 2
(***************************************************************************)
(* Claims about the SFTP inbound run (under SpecSftp).                     *)
(***************************************************************************)
\* C3: a file's fingerprint is saved only after the delivery of that file's
\* converted content has been confirmed successful; when the delivery
\* reports failure (False or an error report) the fingerprint is left as it
\* was.
C3_FingerprintOnlyAfterDelivery ==
    \A i \in 1..Len(saves) : saves[i].delivery = "True"

\* Every candidate file of the run has been converted, in list order.
AllConverted ==
    /\ Len(processed) = Len(filepaths_with_change)
    /\ \A i \in 1..Len(processed) :
           /\ processed[i].file = filepaths_with_change[i][1]
           /\ processed[i].has_changed = filepaths_with_change[i][2]

\* The file of a processed entry was handed to send_df_to_quorum.
Delivered(entry) == entry.delivery # "none"

\* C14 (as claimed): when force is set, a run that returns has converted and
\* delivered every candidate file; when force and dry_run are both unset no
\* file whose changed flag is false is converted or delivered.
C14_ForceDeliversAll ==
    /\ (fpc = "returned" /\ force) =>
           AllConverted /\ \A i \in 1..Len(processed) : Delivered(processed[i])
    /\ (~ force /\ ~ dry_run) =>
           \A i \in 1..Len(processed) : processed[i].has_changed

\* C14 (amended): when force is set, a run that returns has converted every
\* candidate file whatever its changed flag, and has delivered each of them
\* if dry_run is unset and none of them if dry_run is set; when force and
\* dry_run are both unset no file whose changed flag is false is converted
\* or delivered.
C14_ForceConvertsAll ==
    /\ (fpc = "returned" /\ force) =>
           /\ AllConverted
           /\ \A i \in 1..Len(processed) : Delivered(processed[i]) <=> ~ dry_run
    /\ (~ force /\ ~ dry_run) =>
           \A i \in 1..Len(processed) : processed[i].has_changed

\* C14 witness: a forced run that is not dry has returned after delivering
\* two files, the first of which had not changed.
C14_Witness ==
    /\ fpc = "returned" /\ force /\ ~ dry_run
    /\ Len(processed) = 2
    /\ ~ processed[1].has_changed /\ processed[2].has_changed
    /\ Delivered(processed[1]) /\ Delivered(processed[2])

\* C15: detecting the changed files leaves the fingerprint store as it was,
\* whatever the server type; during a run the store is written only by the
\* run loop, for the file the loop is at, only when that file's changed flag
\* is true, and the fingerprint of every other file stays as it was.
C15_StoreWrittenOnlyAtCommit ==
    [][ /\ fpc = "start" => fingerprints' = fingerprints /\ saves' = saves
        /\ (fingerprints' # fingerprints \/ saves' # saves) =>
              \/ saves' = <<>> /\ fingerprints' = fingerprints
              \/ /\ fpc = "loop" /\ file_pos <= Len(filepaths_with_change)
                 /\ filepaths_with_change[file_pos][2]
                 /\ saves' = Append(saves, [file |-> filepaths_with_change[file_pos][1],
                                            delivery |-> saves'[Len(saves')].delivery])
                 /\ \A f \in DOMAIN fingerprints :
                       f # filepaths_with_change[file_pos][1] =>
                           fingerprints'[f] = fingerprints[f] ]_vars

\* C15 witness: a forced run delivered an unchanged file and then a changed
\* one, and saved the fingerprint of the changed one only.
C15_Witness ==
    /\ force /\ ~ dry_run /\ fpc = "returned"
    /\ Len(processed) = 2
    /\ ~ processed[1].has_changed /\ processed[1].delivery = "True"
    /\ processed[2].has_changed /\ processed[2].delivery = "True"
    /\ Len(saves) = 1 /\ saves[1].file = processed[2].file
    /\ fingerprints[processed[2].file] = remote_files[processed[2].file]
    /\ fingerprints[processed[1].file] = remote_files[processed[1].file]

\* C26: the run returns true only if the delivery of every processed file
\* returned true: after a delivery that returned False or an error report
\* the run does not return true.
C26_TrueOnlyIfAllDelivered ==
    (fpc = "returned" /\ run_result = "True") =>
        \A i \in 1..Len(processed) : processed[i].delivery = "True"

(***************************************************************************)
(* Claims about the SFTP outbound run (under SpecUpload) and about dry     *)
(* runs (under SpecRuns).                                                  *)
(***************************************************************************)
\* C25: in a dry run nothing is written outwards: no file is uploaded to a
\* remote server, no upsert is submitted to Salesforce, no converted file
\* is delivered into Quorum, and no fingerprint is saved.
C25_DryRunWritesNothing ==
    dry_run =>
        /\ uploads = <<>> /\ upload_returned = ""
        /\ sent = <<>> /\ upc = "rest"
        /\ \A i \in 1..Len(processed) : processed[i].delivery = "none"
        /\ saves = <<>>

\* C25 witness: a dry SFTP inbound run has returned after converting a
\* changed file and an unchanged one.
C25_Witness ==
    /\ dry_run /\ fpc = "returned" /\ run_result = "results"
    /\ Len(processed) = 2
    /\ processed[1].has_changed /\ ~ processed[2].has_changed
    /\ results = <<"dry_run_result", "dry_run_result">>

\* C27: a live outbound run returns true only if upload_to_remote returned
\* true and the file is on the server: when the upload returned False or
\* nothing, the run does not return true.
C27_TrueOnlyIfUploaded ==
    (opc = "returned" /\ out_result = "True" /\ ~ dry_run) =>
        upload_returned = "True" /\ uploads # <<>>

\* C30: a file whose name ends in .csv.gpg is uploaded with encrypted
\* content only, on either server type, and when the encryption failed
\* (upload_to_remote returned False) nothing is uploaded.
C30_GpgUploadedEncrypted ==
    /\ \A i \in 1..Len(uploads) :
          EndsWith(uploads[i].filename, <<".csv", ".gpg">>) => uploads[i].encrypted
    /\ upload_returned = "False" => uploads = <<>>

(***************************************************************************)
(* Claims about normalize_sf_field_types and the outbound task (SpecTask). *)
(***************************************************************************)
\* C8: when normalization finds only non-fatal validation errors and the
\* force flag is not set, no record of the set is submitted to Salesforce.
C8_NonFatalBlocksUnlessForced ==
    (normalized /\ error_messages # <<>> /\ ~ error_fatal /\ ~ force) => sent = <<>>

\* The columns of the task's dataframe, and those the schema does not have.
ColumnsOf(df) == { df.columns[i] : i \in 1..Len(df.columns) }
UnknownColumns == ColumnsOf(quorum_df) \ DOMAIN ContactDefinitions

\* C9: a column absent from the schema makes normalize_sf_field_types raise,
\* and nothing is submitted, unless the column is quorum_side_primary_key;
\* that column is skipped: no error message names it, its values are left as
\* they were, and a dataframe holding it alone normalizes without error.
C9_UnknownColumnIsFatal ==
    normalized =>
        /\ (UnknownColumns \ {"quorum_side_primary_key"} # {}) =>
               /\ tpc = "raised"
               /\ task_raised \in {"ValueError", "TypeError"}
               /\ task_raised = "ValueError" =>
                      /\ error_fatal
                      /\ \A c \in UnknownColumns \ {"quorum_side_primary_key"} :
                             \E i \in 1..Len(error_messages) :
                                 error_messages[i] = ErrorMessage(c, "not valid")
               /\ sent = <<>> /\ upc = "rest"
        /\ \A i \in 1..Len(error_messages) :
               error_messages[i].field # "quorum_side_primary_key"
        /\ (task_raised = "" /\ "quorum_side_primary_key" \in ColumnsOf(quorum_df)) =>
               ColumnOf(salesforce_df, "quorum_side_primary_key")
                   = ColumnOf(quorum_df, "quorum_side_primary_key")
        /\ ColumnsOf(quorum_df) = {"quorum_side_primary_key"} =>
               error_messages = <<>> /\ task_raised = ""

\* C9 witness: a dataframe with the bookkeeping column and a column the
\* schema does not have: normalization raised, with one error message, about
\* the unknown column.
C9_Witness ==
    /\ tpc = "raised" /\ task_raised = "ValueError"
    /\ ColumnsOf(quorum_df) = {"quorum_side_primary_key", "Bogus__c"}
    /\ error_messages = <<ErrorMessage("Bogus__c", "not valid")>>
    /\ sent = <<>>

\* The task's dataframe holds, in the named column, a non-empty value whose
\* length is neither 15 nor 18.
HasWrongId(field_name) ==
    /\ field_name \in ColumnsOf(quorum_df)
    /\ \E i \in 1..Len(quorum_df.rows) : WrongIdLength(quorum_df.rows[i][field_name])

C19_DateErrorIffNonDate ==
    (normalized /\ "Birthdate" \in ColumnsOf(quorum_df) /\ task_raised # "TypeError") =>
        ((\E i \in 1..Len(error_messages) :
              error_messages[i] = ErrorMessage("Birthdate", "not date values"))
         <=> (\E i \in 1..Len(quorum_df.rows) :
                 /\ quorum_df.rows[i]["Birthdate"] # None
                 /\ ~ IsDateValue(quorum_df.rows[i]["Birthdate"])))

(***************************************************************************)
(* Claims about _send_records_one_at_a_time (under SpecResubmit).          *)
(***************************************************************************)
\* The value the record at position i is matched on.
MatchValue(i) == PopValue(note_records[i], note_match_on)

\* C20: a record that succeeded in the first call is reported with
\* created=false by the second call with the same records; and in a call a
\* record sent as an update that Salesforce carried out is reported with
\* created=false, only a record that was newly created with created=true.
C20_ResubmitReportsNotCreated ==
    /\ rpc = "done" =>
          \A i \in 1..Len(note_records) :
              (Truthy(MatchValue(i)) /\ Truthy(first_list[i].success)) =>
                  second_list[i].created = PyBool(FALSE)
    /\ rpc \in {"second", "done"} =>
          \A i \in 1..Len(note_records) :
              /\ (Truthy(MatchValue(i)) /\ first_replies[i].update = 204) =>
                    first_list[i].created = PyBool(FALSE)
              /\ first_list[i].created = PyBool(TRUE) =>
                    ~ Truthy(MatchValue(i)) /\ first_replies[i].create = "ok"

\* The keys of one result of the one-at-a-time path are there (the model
\* keeps them in a record that also says whether the result is a dict).
HasResultKeys(result) ==
    /\ DOMAIN result = {"isdict", "id", "success", "errors", "created"}
    /\ result.isdict
    /\ result.success \in {PyBool(TRUE), PyBool(FALSE)}
    /\ result.created \in {PyBool(TRUE), PyBool(FALSE)}

\* The call made for the record at position i raised.
FirstCallRaised(i) ==
    IF Truthy(MatchValue(i)) THEN first_replies[i].update = 0
    ELSE note_match_on = "Id" /\ first_replies[i].create = "raise"

\* C23: _send_records_one_at_a_time returns one result per input record, in
\* input order, each with id, success, errors and created: the result at
\* position i is the failure of the except branch when the call for record i
\* raised, the "no match_on value" failure carrying record i's Id when
\* record i lacks a match value, and carries the new id when record i was
\* created.
C23_OneResultPerRecord ==
    /\ rpc \in {"second", "done"} =>
          /\ Len(first_list) = Len(note_records)
          /\ \A i \in 1..Len(first_list) :
                /\ HasResultKeys(first_list[i])
                /\ FirstCallRaised(i) => first_list[i] = ExceptResult
                /\ (note_match_on # "Id" /\ ~ Truthy(MatchValue(i))) =>
                      /\ first_list[i].id = note_records[i]["Id"]
                      /\ first_list[i].success = PyBool(FALSE)
                      /\ first_list[i].errors = <<"No match_on value provided">>
                /\ ( /\ note_match_on = "Id" /\ ~ Truthy(MatchValue(i))
                     /\ first_replies[i].create = "ok" ) =>
                      first_list[i].id = SfId(i) /\ first_list[i].success = PyBool(TRUE)
    /\ rpc = "done" =>
          /\ Len(second_list) = Len(note_records)
          /\ \A i \in 1..Len(second_list) : HasResultKeys(second_list[i])

\* C23 witness: of two records matched on the external id field the first
\* has no match value and the call for the second raised; two results came
\* back.
C23_Witness ==
    /\ rpc = "second" /\ note_match_on = "Quorum_ID__c"
    /\ Len(note_records) = 2 /\ Len(first_list) = 2
    /\ ~ Truthy(MatchValue(1))
    /\ Truthy(MatchValue(2)) /\ first_replies[2].update = 0
    /\ first_list[1].errors = <<"No match_on value provided">>
    /\ first_list[2] = ExceptResult

\* C28: a record whose update did not return the no-content code is not
\* reported as a success and carries no external id: its result takes
\* nothing from an earlier record of the list.
C28_ResultFromOwnResponse ==
    rpc \in {"second", "done"} =>
        \A i \in 1..Len(note_records) :
            (Truthy(MatchValue(i)) /\ first_replies[i].update # 204) =>
                /\ first_list[i].success = PyBool(FALSE)
                /\ first_list[i].id \in {None, PyStr(<<"None">>)}

(***************************************************************************)
(* Claims about update_external_id_dict (under SpecSend).                  *)
(***************************************************************************)
\* The (internal id, external id) pairs of the rows the re-query returned.
RequeriedPairs ==
    { <<requeried.rows[i].quorum_id, requeried.rows[i].external_unique_id>> :
        i \in { j \in 1..Len(requeried.rows) : requeried.rows[j].quorum_id # None } }

\* C11: after update_external_id_dict ran for the task's entity, the
\* entity's portion of the identifier map holds exactly the pairs returned
\* by the re-query; when the re-query returned no pairs the portion is empty.
C11_MapEqualsRequery ==
    requeried.ran => external_id_dictionary.ids = RequeriedPairs

(***************************************************************************)
(* Claims about a send that a fault cuts short (under SpecSend).           *)
(***************************************************************************)
\* The (internal id, external id) pairs among a list of outcomes.
PairsAmong(outcomes) ==
    { <<outcomes[i].quorum_id, outcomes[i].sf_id>> :
        i \in { j \in 1..Len(outcomes) :
                  outcomes[j].quorum_id # None /\ outcomes[j].sf_id # None } }

\* The pairs returned by the chunks that completed.
CompletedPairs == UNION { PairsAmong(chunk_results[k]) : k \in 1..Len(chunk_results) }

\* The pairs written to the Ledger, and those attached to a notification
\* (as a dataframe of pairs or inside the results dictionary).
LedgerPairs ==
    { <<ledger_ids[i].quorum_id, ledger_ids[i].external_unique_id>> :
        i \in 1..Len(ledger_ids) }
NotifiedPairs ==
    UNION { PairsOf(notifications[i]) \cup PairsAmong(notifications[i].results) :
              i \in 1..Len(notifications) }

\* C12: when a send of several chunks has ended because the submission of a
\* chunk raised a fault of any kind, every (internal id, external id) pair
\* returned by the completed chunks is in the Ledger or in a notification.
C12_PairsSurviveAnyFault ==
    (SendEnded /\ fault.kind # "" /\ Len(Chunks) > 1) =>
        CompletedPairs \subseteq (LedgerPairs \cup NotifiedPairs)

(***************************************************************************)
(* Claims about query_sf with async_queries (under SpecQuery).             *)
(***************************************************************************)
\* How many times a record is in the aggregate.
TimesIn(record) == Cardinality({ k \in 1..Len(all_records) : all_records[k] = record })

\* C13: query_sf never raises because a fetch raised, and when it returns
\* every clause has been fetched and the aggregate holds each record of
\* every fetch that succeeded exactly once and no other record, whatever
\* the order in which the workers ran and completed.
C13_FailedChunkExcluded ==
    /\ qpc # "raised"
    /\ qpc = "returned" =>
          /\ fetched = DOMAIN where_clauses
          /\ \A i \in DOMAIN futures :
                \A k \in 1..Len(futures[i].records) :
                    TimesIn(futures[i].records[k]) = 1
          /\ \A k \in 1..Len(all_records) :
                /\ futures[all_records[k].clause].state = "done"
                /\ \E j \in 1..Len(futures[all_records[k].clause].records) :
                       futures[all_records[k].clause].records[j] = all_records[k]

\* C13 witness: three clauses, the fetch of the second raised, the other
\* two returned records, and the third completed before the first.
C13_Witness ==
    /\ qpc = "returned"
    /\ Len(where_clauses) = 3
    /\ futures[2].state = "raised"
    /\ Len(all_records) = 4
    /\ all_records[1].clause = 3
====
